---- MODULE Spec2Model ----
(***************************************************************************)
(* Model of the terminal-bench green agent: the scoring core (per-task     *)
(* score, weighted overall score, aggregate report), the report text built *)
(* by TerminalBenchGreenAgentExecutor.format_results_message and the       *)
(* request handler TerminalBenchGreenAgentExecutor.execute.                *)
(*                                                                         *)
(* Numbers that are floats in the program are exact rationals here,        *)
(* [num, den] in lowest terms; den = 0 stands for the result of a division *)
(* by zero (an error in the program).                                      *)
(***************************************************************************)
EXTENDS Integers, Sequences, FiniteSets, TLC

\* ------------------------------------------------------------------ bounds

\* longest parser_results of a trial scored on its own
MaxTests == 3
\* longest result list of a BenchmarkResults
MaxTrials == 2
\* longest user input handed to parse_task_config, in pieces
MaxInputLen == 4
\* largest white_agent.max_iterations the LLM white agent is run with
MaxIterations == 2
\* how many times format_results_message is invoked on the same arguments
MaxFormatCalls == 2

\* commands in the plan of the simple white agent
MaxPlan == 2

\* ------------------------------------------------------------------ state

VARIABLES
    results,    \* the BenchmarkResults.results handed to the report logic
    config,     \* the config dict handed to format_results_message
    message,    \* what format_results_message returned
    summary,    \* what buildReport returned
    format_calls,   \* how many times format_results_message has been invoked
    pc,                  \* per request: where execute stands
    current_task,        \* per request: context.current_task is not None
    user_input,          \* per request: context.get_user_input()
    events,              \* per request: the events enqueued so far
    task_config,         \* per request: the parsed task_config
    raised,              \* per request: the exception caught by execute
    terminal_reached,    \* per request: TaskUpdater._terminal_state_reached
    rejects_after_terminal,  \* the TaskUpdater refuses updates after a terminal state
    harness_results,     \* per request: the call of run_terminal_bench_evaluation
    evaluation_history,  \* self.evaluation_history
    parse_input,         \* the user_input handed to parse_task_config
    parse_result,        \* what parse_task_config returned or raised
    environ,             \* os.environ: the value of each variable, "None" when unset
    toml_config,         \* Settings._config: the node at each dotted path
    get_call,            \* the last call of Settings.get and what it returned
    main_agent,          \* whose main() runs: the green agent's or the LLM white agent's
    provided,            \* per setting: what config.toml and the environment give
    main_pc,             \* where main() stands
    main_exc,            \* the exception main() ended with
    logged_errors,       \* the logger.error messages so far
    server,              \* "None", "created" or "running"
    blocked_commands,    \* settings white_agent.blocked_commands, "missing" when not configured
    agent_max_iterations,    \* settings white_agent.max_iterations
    llm_responses,       \* the responses the LLM may give
    container_name,      \* LLMWhiteAgentExecutor.container_name, shared by all requests
    running,             \* the request that holds the event loop, 0 when it is free
    l_pc,                \* per request: where execute of the LLM white agent stands
    instruction,         \* per request: the container named in the user input
    iteration,           \* per request: iteration of _run_agent_loop
    llm_calls,           \* per request: calls of chat.completions.create so far
    messages,            \* per request: the conversation
    tool_calls,          \* per request: the tool calls still to handle
    process,             \* per request: the subprocess being awaited
    loop_result,         \* per request: what _run_agent_loop returned
    l_raised,            \* per request: the exception caught by execute
    l_events,            \* per request: the events enqueued so far
    commands_run,        \* every subprocess started: request, container, command
    simple_blocked,      \* settings.blocked_commands of the simple white agent's process
    execution_root,      \* what the working directory of the simple agent's commands is
    s_pc,                \* where execute of the simple white agent stands
    command_plan,        \* the commands planned from the user input
    command_results,     \* the results list of _execute_command_plan
    shell_commands,      \* every command handed to create_subprocess_shell
    verification_passed, \* what _verify_execution returned
    s_raised,            \* the exception that left execute
    s_events             \* the events enqueued so far

scoreVars == <<results, config, message, summary, format_calls>>

execVars ==
    <<pc, current_task, user_input, events, task_config, raised,
      terminal_reached, rejects_after_terminal, harness_results, evaluation_history>>

parseVars == <<parse_input, parse_result>>

settingsVars == <<environ, toml_config, get_call>>

mainVars == <<main_agent, provided, main_pc, main_exc, logged_errors, server>>

llmVars ==
    <<blocked_commands, agent_max_iterations, llm_responses, container_name, running,
      l_pc, instruction, iteration, llm_calls, messages, tool_calls, process,
      loop_result, l_raised, l_events, commands_run>>

simpleVars ==
    <<simple_blocked, execution_root, s_pc, command_plan, command_results,
      shell_commands, verification_passed, s_raised, s_events>>

whiteVars == <<llmVars, simpleVars>>

auxVars == <<parseVars, settingsVars, mainVars, whiteVars>>

vars == <<scoreVars, execVars, auxVars>>

\* ------------------------------------------------------------ rationals

RECURSIVE GCD(_, _)
GCD(a, b) == IF b = 0 THEN a ELSE GCD(b, a % b)

Abs(x) == IF x < 0 THEN -x ELSE x

\* n / d in lowest terms; a zero denominator is kept as the error value
Rat(n, d) ==
    IF d = 0 THEN [num |-> n, den |-> 0]
    ELSE LET g == GCD(Abs(n), Abs(d))
         IN  [num |-> n \div g, den |-> d \div g]

Zero == Rat(0, 1)
Half == Rat(1, 2)
One == Rat(1, 1)

IsError(x) == x.den = 0

RatAdd(x, y) ==
    IF IsError(x) \/ IsError(y) THEN [num |-> 0, den |-> 0]
    ELSE Rat(x.num * y.den + y.num * x.den, x.den * y.den)

RatMul(x, y) ==
    IF IsError(x) \/ IsError(y) THEN [num |-> 0, den |-> 0]
    ELSE Rat(x.num * y.num, x.den * y.den)

RatLe(x, y) == x.num * y.den <= y.num * x.den

\* ------------------------------------------------------------ data model

TaskIds == {"hello-world", "hard-task", "unknown-task"}

\* a test-case status as found in parser_results: the two known values, an
\* unrecognized string, and a malformed (null) value
Statuses == {"pass", "fail", "error", "null"}

None == -1

NoParserResults == [present |-> FALSE, entries |-> <<>>]

RECURSIVE SeqsUpTo(_, _)
SeqsUpTo(S, n) ==
    IF n = 0 THEN {<<>>}
    ELSE LET shorter == SeqsUpTo(S, n - 1)
         IN  shorter \cup {Append(s, x) : s \in {t \in shorter : Len(t) = n - 1}, x \in S}

ParserResults(S, n) ==
    {NoParserResults} \cup {[present |-> TRUE, entries |-> e] : e \in SeqsUpTo(S, n)}

\* TrialResult: the outcome of one task attempt
Trial(id, resolved, pr, fm, tin, tout) ==
    [task_id |-> id, is_resolved |-> resolved, parser_results |-> pr,
     failure_mode |-> fm, total_input_tokens |-> tin, total_output_tokens |-> tout]

\* trials scored on their own: every shape of parser_results
RichTrials ==
    {Trial(id, r, pr, "None", None, None) :
        id \in TaskIds, r \in BOOLEAN, pr \in ParserResults(Statuses, MaxTests)}

\* trials of a result list: no test-case detail, one passing or one failing test case
ListParserResults ==
    {NoParserResults,
     [present |-> TRUE, entries |-> <<"pass">>],
     [present |-> TRUE, entries |-> <<"fail">>]}

ListTrials ==
    {Trial(id, r, pr, "None", None, None) :
        id \in TaskIds, r \in BOOLEAN, pr \in ListParserResults}

\* FailureMode values of a trial; "None" is an absent failure mode
FailureModes == {"None", "agent_timeout"}

\* optional token counts: absent, zero, positive
TokenCounts == {None, 0, 7}

\* trials with the optional detail the report prints under the marker
LineTrials ==
    {Trial("hello-world", r, NoParserResults, fm, tin, tout) :
        r \in BOOLEAN, fm \in FailureModes, tin \in TokenCounts, tout \in TokenCounts}

\* the config dict of a request: a key that is absent reads "None"
Configs ==
    {[white_agent_url |-> "None", dataset_name |-> "None"],
     [white_agent_url |-> "http://white", dataset_name |-> "tb-core"]}

\* ------------------------------------------------- per-task score (4.1)

RECURSIVE CountPass_NotFail(_)
\* mutant: every status other than fail is counted as passing
CountPass_NotFail(entries) ==
    IF entries = <<>> THEN 0
    ELSE (IF Head(entries) # "fail" THEN 1 ELSE 0) + CountPass_NotFail(Tail(entries))

RECURSIVE CountPass(_)
\* count(status == pass): the numerator of the test pass rate
CountPass(entries) ==
    IF entries = <<>> THEN 0
    ELSE (IF Head(entries) = "pass" THEN 1 ELSE 0) + CountPass(Tail(entries))

\* mutant: the division is not guarded against an empty parser_results
test_pass_rate_Unguarded(trial) ==
    Rat(CountPass(trial.parser_results.entries), Len(trial.parser_results.entries))

\* fraction of parser_results entries whose status is pass; 0.0 when
\* parser_results is absent or empty
test_pass_rate(trial) ==
    LET pr == trial.parser_results
    IN  IF pr.present /\ Len(pr.entries) > 0
        THEN Rat(CountPass(pr.entries), Len(pr.entries))
        ELSE Zero

\* mutant: a resolved trial contributes 1.0 instead of 0.5
resolved_component_Full(trial) == IF trial.is_resolved THEN One ELSE Zero

resolved_component(trial) == IF trial.is_resolved THEN Half ELSE Zero

\* mutant: the resolved component is left out of the score
computeTaskScore_RateOnly(trial) == RatMul(Half, test_pass_rate(trial))

\* score = 0.5 * test_pass_rate + 0.5 * (1.0 if is_resolved else 0.0)
computeTaskScore(trial) ==
    RatAdd(RatMul(Half, test_pass_rate(trial)), resolved_component(trial))

\* ------------------------------------------- weighted overall score (4.2)

\* the difficulty-weight table, task_id -> weight: easy = 1, hard = 3; a task
\* outside the table has no weight
HasWeight(id) == id \in {"hello-world", "hard-task"}

DifficultyWeight(id) == IF id = "hello-world" THEN 1 ELSE 3

RECURSIVE SumScoreWeight(_)
SumScoreWeight(tasks) ==
    IF tasks = <<>> THEN Zero
    ELSE RatAdd(RatMul(Head(tasks).score, Rat(Head(tasks).weight, 1)),
                SumScoreWeight(Tail(tasks)))

RECURSIVE SumWeight(_)
SumWeight(tasks) ==
    IF tasks = <<>> THEN 0 ELSE Head(tasks).weight + SumWeight(Tail(tasks))

RECURSIVE SumScore(_)
SumScore(tasks) ==
    IF tasks = <<>> THEN Zero ELSE RatAdd(Head(tasks).score, SumScore(Tail(tasks)))

\* mutant: the plain mean of the scores, the weights ignored
computeWeightedScore_Mean(tasks) ==
    IF Len(tasks) = 0 THEN Zero ELSE RatMul(SumScore(tasks), Rat(1, Len(tasks)))

\* mutant: the division is not guarded against a zero denominator
computeWeightedScore_Unguarded(tasks) ==
    RatMul(SumScoreWeight(tasks), Rat(1, SumWeight(tasks)))

\* sum(score_i * weight_i) / sum(weight_i); 0.0 when the denominator is zero
computeWeightedScore(tasks) ==
    LET numerator == SumScoreWeight(tasks)
        denominator == SumWeight(tasks)
    IN  IF denominator = 0 THEN Zero
        ELSE RatMul(numerator, Rat(1, denominator))

\* ---------------------------------------------------- aggregate report (4.3)

RECURSIVE CountResolved(_)
CountResolved(rs) ==
    IF rs = <<>> THEN 0
    ELSE (IF Head(rs).is_resolved THEN 1 ELSE 0) + CountResolved(Tail(rs))

RECURSIVE CountUnresolved(_)
CountUnresolved(rs) ==
    IF rs = <<>> THEN 0
    ELSE (IF ~Head(rs).is_resolved THEN 1 ELSE 0) + CountUnresolved(Tail(rs))

\* BenchmarkResults.n_resolved: count where is_resolved == true
n_resolved(rs) == CountResolved(rs)

\* BenchmarkResults.n_unresolved: count where is_resolved == false
n_unresolved(rs) == CountUnresolved(rs)

\* BenchmarkResults.accuracy: n_resolved / total if total > 0 else 0.0
accuracy(rs) ==
    IF Len(rs) > 0 THEN Rat(n_resolved(rs), Len(rs)) ELSE Zero

\* the configured k of pass_at_k
PassAtKs == <<1, 2>>

\* the task_ids of a result list, each once
DistinctTasks(rs) == {rs[i].task_id : i \in 1..Len(rs)}

\* the attempts of one task_id, in the order of the result list
Attempts(rs, id) == SelectSeq(rs, LAMBDA t : t.task_id = id)

\* a resolved attempt among the first k attempts of the task
ResolvedWithin(rs, id, k) ==
    LET a == Attempts(rs, id)
    IN  \E i \in 1..Len(a) : i <= k /\ a[i].is_resolved

\* BenchmarkResults.pass_at_k: for each configured k the fraction of distinct
\* tasks with a resolved attempt among their first k attempts; undefined
\* (defined = FALSE) when there is no task
pass_at_k(rs) ==
    [j \in 1..Len(PassAtKs) |->
        LET k == PassAtKs[j]
            tasks == DistinctTasks(rs)
        IN  [k |-> k,
             defined |-> tasks # {},
             score |-> IF tasks = {} THEN Zero
                       ELSE Rat(Cardinality({id \in tasks : ResolvedWithin(rs, id, k)}),
                                Cardinality(tasks))]]

\* TaskScore: the test pass rate and the score derived from one trial
TaskScore(trial) ==
    [test_pass_rate |-> test_pass_rate(trial), score |-> computeTaskScore(trial)]

\* the per-task score list of the report, in the order of the result list
TaskScores(rs) == [i \in 1..Len(rs) |-> TaskScore(rs[i])]

\* the (score, weight) pairs of the tasks that have a defined weight
WeightedTasks(rs) ==
    LET weighted == SelectSeq(rs, LAMBDA t : HasWeight(t.task_id))
    IN  [i \in 1..Len(weighted) |->
            [score |-> computeTaskScore(weighted[i]),
             weight |-> DifficultyWeight(weighted[i].task_id)]]

\* buildReport(results) -> ReportSummary
buildReport(rs) ==
    [called |-> TRUE,
     n_resolved |-> n_resolved(rs),
     n_unresolved |-> n_unresolved(rs),
     accuracy |-> accuracy(rs),
     task_scores |-> TaskScores(rs),
     weighted_overall_score |-> computeWeightedScore(WeightedTasks(rs))]

NoSummary ==
    [called |-> FALSE, n_resolved |-> 0, n_unresolved |-> 0, accuracy |-> Zero,
     task_scores |-> <<>>, weighted_overall_score |-> Zero]

\* ------------------------------------------------------ the report text

\* one line of the message: its label, its text field and its two numbers
Line(kind, text, a, b) == [kind |-> kind, text |-> text, a |-> a, b |-> b]

\* format(x, ".2%"): x as hundredths of a percent, rounded half to even
PercentFmt(x) ==
    LET scaled == x.num * 10000
        q == scaled \div x.den
        r == scaled % x.den
    IN  IF 2 * r < x.den THEN q
        ELSE IF 2 * r > x.den THEN q + 1
        ELSE IF q % 2 = 0 THEN q ELSE q + 1

\* config.get(key, default)
ConfigGet(value, default) == IF value = "None" THEN default ELSE value

\* x or 0
OrZero(x) == IF x = None THEN 0 ELSE x

\* truth value of an optional token count: None and 0 are false
Truthy(x) == x # None /\ x # 0

\* mutant: the Unresolved line prints n_resolved
HeaderLines_Swapped(rs, cfg) ==
    << Line("Terminal-Bench Evaluation Results", "", 0, 0),
       Line("Agent Under Test", ConfigGet(cfg.white_agent_url, "Unknown"), 0, 0),
       Line("Dataset", ConfigGet(cfg.dataset_name, "terminal-bench"), 0, 0),
       Line("Tasks Evaluated", "", Len(rs), 0),
       Line("Overall Performance", "", 0, 0),
       Line("Accuracy", "", PercentFmt(accuracy(rs)), 0),
       Line("Resolved", "", n_resolved(rs), Len(rs)),
       Line("Unresolved", "", n_resolved(rs), Len(rs)) >>

\* the f-string that opens the message
HeaderLines(rs, cfg) ==
    << Line("Terminal-Bench Evaluation Results", "", 0, 0),
       Line("Agent Under Test", ConfigGet(cfg.white_agent_url, "Unknown"), 0, 0),
       Line("Dataset", ConfigGet(cfg.dataset_name, "terminal-bench"), 0, 0),
       Line("Tasks Evaluated", "", Len(rs), 0),
       Line("Overall Performance", "", 0, 0),
       Line("Accuracy", "", PercentFmt(accuracy(rs)), 0),
       Line("Resolved", "", n_resolved(rs), Len(rs)),
       Line("Unresolved", "", n_unresolved(rs), Len(rs)) >>

RECURSIVE PassAtKLines_All(_)
\* mutant: the test `score is not None` is dropped
PassAtKLines_All(metrics) ==
    IF metrics = <<>> THEN <<>>
    ELSE << Line("Pass@", "", Head(metrics).k, PercentFmt(Head(metrics).score)) >>
         \o PassAtKLines_All(Tail(metrics))

RECURSIVE PassAtKLines(_)
\* for k, score in results.pass_at_k.items(): one line when score is not None
PassAtKLines(metrics) ==
    IF metrics = <<>> THEN <<>>
    ELSE (IF Head(metrics).defined
          THEN << Line("Pass@", "", Head(metrics).k, PercentFmt(Head(metrics).score)) >>
          ELSE <<>>)
         \o PassAtKLines(Tail(metrics))

\* the "Pass@k Metrics" block, present when the pass_at_k dict is not empty
PassAtKBlock(rs) ==
    IF pass_at_k(rs) # <<>>
    THEN << Line("Pass@k Metrics", "", 0, 0) >> \o PassAtKLines(pass_at_k(rs))
    ELSE <<>>

\* mutant: the failure mode is printed whenever it is set
ResultLines_AnyFailureMode(result) ==
    << Line(IF result.is_resolved THEN "PASS" ELSE "FAIL", result.task_id, 0, 0) >>
    \o (IF result.failure_mode # "None"
        THEN << Line("Failure Mode", result.failure_mode, 0, 0) >>
        ELSE <<>>)
    \o (IF Truthy(result.total_input_tokens) \/ Truthy(result.total_output_tokens)
        THEN << Line("Tokens", "", OrZero(result.total_input_tokens),
                     OrZero(result.total_output_tokens)) >>
        ELSE <<>>)

\* the lines of one trial: marker, failure mode, tokens
ResultLines(result) ==
    << Line(IF result.is_resolved THEN "PASS" ELSE "FAIL", result.task_id, 0, 0) >>
    \o (IF ~result.is_resolved /\ result.failure_mode # "None"
        THEN << Line("Failure Mode", result.failure_mode, 0, 0) >>
        ELSE <<>>)
    \o (IF Truthy(result.total_input_tokens) \/ Truthy(result.total_output_tokens)
        THEN << Line("Tokens", "", OrZero(result.total_input_tokens),
                     OrZero(result.total_output_tokens)) >>
        ELSE <<>>)

RECURSIVE TaskLines_Reversed(_)
\* mutant: the trials are listed last first
TaskLines_Reversed(rs) ==
    IF rs = <<>> THEN <<>> ELSE TaskLines_Reversed(Tail(rs)) \o ResultLines(Head(rs))

RECURSIVE TaskLines(_)
\* for result in results.results
TaskLines(rs) ==
    IF rs = <<>> THEN <<>> ELSE ResultLines(Head(rs)) \o TaskLines(Tail(rs))

\* the message once the reads of results have succeeded
MessageLines(rs, cfg) ==
    HeaderLines(rs, cfg)
    \o PassAtKBlock(rs)
    \o << Line("Task Results", "", 0, 0), Line("-", "", 60, 0) >>
    \o TaskLines(rs)
    \o << Line("=", "", 60, 0) >>

\* mutant: the accuracy is computed in place as n_resolved / len(results.results)
format_results_message_InlineAccuracy(rs, cfg) ==
    IF Len(rs) = 0
    THEN [called |-> TRUE, raised |-> TRUE, lines |-> <<>>]
    ELSE [called |-> TRUE, raised |-> FALSE, lines |-> MessageLines(rs, cfg)]

\* mutant: the report of the first evaluation is kept and returned again
format_results_message_Cached(rs, cfg) ==
    IF evaluation_history # <<>>
    THEN [called |-> TRUE, raised |-> FALSE,
          lines |-> MessageLines(Head(evaluation_history).results,
                                 Head(evaluation_history).config)]
    ELSE [called |-> TRUE, raised |-> FALSE, lines |-> MessageLines(rs, cfg)]

\* format_results_message(results, config); raised is set when reading
\* results.accuracy fails
format_results_message(rs, cfg) ==
    IF IsError(accuracy(rs))
    THEN [called |-> TRUE, raised |-> TRUE, lines |-> <<>>]
    ELSE [called |-> TRUE, raised |-> FALSE, lines |-> MessageLines(rs, cfg)]

NoMessage == [called |-> FALSE, raised |-> FALSE, lines |-> <<>>]

\* -------------------------------------------------- the request handler

\* number of evaluation requests sent to the one executor
NumRequests == 2

Requests == 1..NumRequests

\* The user input of a request, as the pieces parse_task_config tells apart:
\* the two tags, JSON texts (two objects and a list), text that is not JSON,
\* and white space.
OpenTag == "<task_config>"
CloseTag == "</task_config>"
JsonObjects == {"{}", "{white_agent_url, dataset_name}"}
JsonTexts == JsonObjects \cup {"[1]"}

\* the inputs the handler is run on
ExecInputs ==
    { <<OpenTag, "{white_agent_url, dataset_name}", CloseTag>>,
      <<"{}">>,
      <<"[1]">>,
      <<"please evaluate">>,
      <<OpenTag, "please evaluate", CloseTag>> }

\* json.loads(text): one JSON text, white space around it allowed
JsonLoads(text) ==
    LET core == SelectSeq(text, LAMBDA t : t # " ")
    IN  IF Len(core) = 1 /\ core[1] \in JsonTexts
        THEN [ok |-> TRUE, value |-> core[1]]
        ELSE [ok |-> FALSE, value |-> "None"]

\* re.search(r"<task_config>(.*?)</task_config>", user_input, re.DOTALL):
\* the first opening tag that has a closing tag after it
OpenIdx(input) == {i \in 1..Len(input) : input[i] = OpenTag}

CloseIdxAfter(input, i) == {j \in 1..Len(input) : j > i /\ input[j] = CloseTag}

Min(S) == CHOOSE x \in S : \A y \in S : x <= y

HasMatch(input) ==
    OpenIdx(input) # {} /\ CloseIdxAfter(input, Min(OpenIdx(input))) # {}

Max(S) == CHOOSE x \in S : \A y \in S : x >= y

\* mutant: the group is greedy, (.*) for (.*?), and runs up to the last closing tag
MatchGroup_Greedy(input) ==
    LET i == Min(OpenIdx(input))
        j == Max(CloseIdxAfter(input, i))
    IN  SubSeq(input, i + 1, j - 1)

\* match.group(1): the text up to the first closing tag
MatchGroup(input) ==
    LET i == Min(OpenIdx(input))
        j == Min(CloseIdxAfter(input, i))
    IN  SubSeq(input, i + 1, j - 1)

\* parse_task_config(user_input): the parsed value, or the exception raised
parse_task_config(input) ==
    IF HasMatch(input)
    THEN LET r == JsonLoads(MatchGroup(input))
         IN  IF r.ok THEN [raised |-> "None", value |-> r.value]
             ELSE [raised |-> "JSONDecodeError", value |-> "None"]
    ELSE LET r == JsonLoads(input)
         IN  IF r.ok THEN [raised |-> "None", value |-> r.value]
             ELSE [raised |-> "ValueError", value |-> "None"]

\* the pieces a user input is made of
InputPieces == {OpenTag, CloseTag, "{}", "[1]", "please evaluate", " "}

\* the user inputs parse_task_config is studied on
ParseInputs == SeqsUpTo(InputPieces, MaxInputLen)

NotParsed == [called |-> FALSE, raised |-> "None", value |-> "None"]

\* the dict a JSON object text stands for
ConfigOf(text) ==
    IF text = "{white_agent_url, dataset_name}"
    THEN [white_agent_url |-> "http://white", dataset_name |-> "tb-core"]
    ELSE [white_agent_url |-> "None", dataset_name |-> "None"]

NoConfig == [white_agent_url |-> "None", dataset_name |-> "None"]

\* what harness.run() can return
HarnessResults ==
    { <<>>,
      << Trial("hello-world", TRUE, NoParserResults, "None", None, None) >>,
      << Trial("hello-world", TRUE, NoParserResults, "None", None, None),
         Trial("hard-task", FALSE, NoParserResults, "None", None, None) >> }

\* an event put on the request's event queue
Event(kind, state, final, name, body) ==
    [kind |-> kind, state |-> state, final |-> final, name |-> name, body |-> body]

\* new_agent_text_message(text, ...)
TextMessage(text, detail) == << Line(text, detail, 0, 0) >>

TerminalStates == {"completed", "canceled", "failed", "rejected"}

\* --------------------------------- the report logic applied to its inputs

\* ------------------------------------------------------ Settings.get

\* the words config keys are made of, and their upper-case form
Upper ==
    [w \in {"green", "agent", "port", "extra"} |->
        CASE w = "green" -> "GREEN"
          [] w = "agent" -> "AGENT"
          [] w = "port" -> "PORT"
          [] w = "extra" -> "EXTRA"]

\* a key is the list of its dot-separated segments, a segment the list of its
\* words joined by "_": green_agent.port, green.agent_port, green_agent and
\* green_agent.port.extra
SettingsKeys ==
    { << <<"green", "agent">>, <<"port">> >>,
      << <<"green">>, <<"agent", "port">> >>,
      << <<"green", "agent">> >>,
      << <<"green", "agent">>, <<"port">>, <<"extra">> >> }

RECURSIVE Flatten(_)
Flatten(segments) ==
    IF segments = <<>> THEN <<>> ELSE Head(segments) \o Flatten(Tail(segments))

\* key.upper().replace(".", "_"): the upper-case words, all joined by "_"
EnvKey(key) ==
    LET words == Flatten(key) IN [i \in 1..Len(words) |-> Upper[words[i]]]

EnvNames == {EnvKey(key) : key \in SettingsKeys}

\* the value of an environment variable; "None" is what os.getenv returns
\* for a variable that is not set
EnvValues == {"None", "", "9000"}

\* the non-empty prefixes of a key
Prefixes(key) == {SubSeq(key, 1, n) : n \in 1..Len(key)}

\* every dotted path a key walks through
TomlPaths == UNION {Prefixes(key) : key \in SettingsKeys}

\* a node of the parsed file: no entry, a table, or a value
TomlNodes == {"absent", "table", "8000", "false"}

\* the parsed config.toml files: an entry exists only inside a table
TomlConfigs ==
    {c \in [TomlPaths -> TomlNodes] :
        \A path \in TomlPaths :
            (Len(path) > 1 /\ c[path] # "absent") => c[SubSeq(path, 1, Len(path) - 1)] = "table"}

Defaults == {"None", "default"}

RECURSIVE Walk(_, _, _, _, _)
\* the loop over key.split("."): value is the node reached at path; a node
\* that is not a dict, or a missing entry, ends the walk with default
Walk(cfg, value, path, rest, default) ==
    IF rest = <<>> THEN value
    ELSE IF value # "table" THEN default
    ELSE LET next == Append(path, Head(rest))
         IN  IF cfg[next] = "absent" THEN default
             ELSE Walk(cfg, cfg[next], next, Tail(rest), default)

\* mutant: the file is consulted before the environment
Settings_get_FileFirst(env, cfg, key, default) ==
    LET value == Walk(cfg, "table", <<>>, key, "None")
    IN  IF value # "None" THEN value
        ELSE IF env[EnvKey(key)] # "None" THEN env[EnvKey(key)]
        ELSE default

\* Settings.get(key, default)
Settings_get(env, cfg, key, default) ==
    LET env_value == env[EnvKey(key)]
    IN  IF env_value # "None" THEN env_value
        ELSE Walk(cfg, "table", <<>>, key, default)

NoGet == [called |-> FALSE, key |-> <<>>, default |-> "None", result |-> "None"]

\* Settings.get is not under study
SettingsIdle ==
    /\ environ = [n \in EnvNames |-> "None"]
    /\ toml_config = [path \in TomlPaths |-> "absent"]
    /\ get_call = NoGet

\* ------------------------------------------------------------- main()

\* the settings validate_required_settings reads, in its order
RequiredSettings ==
    << "green_agent_host", "green_agent_port", "green_agent_card_path",
       "white_agent_host", "white_agent_port", "white_agent_card_path",
       "white_agent_model", "eval_task_ids" >>

\* the settings logging.basicConfig reads
LoggingSettings == << "log_level", "log_format" >>

PortSettings == {"green_agent_port", "white_agent_port"}

SettingNames ==
    {RequiredSettings[i] : i \in 1..Len(RequiredSettings)}
        \cup {LoggingSettings[i] : i \in 1..Len(LoggingSettings)}

\* what a setting resolves to: nothing, a usable value, or (a port) a string
\* that int() rejects
Provisions ==
    {f \in [SettingNames -> {"missing", "present", "invalid"}] :
        \A n \in SettingNames : f[n] = "invalid" => n \in PortSettings}

\* reading one property: ConfigurationError when the setting is missing,
\* ValueError from int(port) when a port is not a number
ReadSetting(given, name) ==
    CASE given[name] = "missing" -> "ConfigurationError"
      [] given[name] = "invalid" -> "ValueError"
      [] OTHER -> "None"

RECURSIVE ReadAll(_, _)
\* reading properties one after the other: the first exception ends it
ReadAll(given, names) ==
    IF names = <<>> THEN "None"
    ELSE IF ReadSetting(given, Head(names)) # "None" THEN ReadSetting(given, Head(names))
    ELSE ReadAll(given, Tail(names))

\* settings.validate_required_settings()
validate_required_settings(given) == ReadAll(given, RequiredSettings)

\* issubclass(exc, ValueError): json.JSONDecodeError derives from ValueError,
\* ConfigurationError from Exception
IsValueError(exc) == exc \in {"ValueError", "JSONDecodeError"}

\* main() is not under study
MainIdle ==
    /\ main_agent = "green"
    /\ provided = [n \in SettingNames |-> "present"]
    /\ main_pc = "returned"
    /\ main_exc = "None"
    /\ logged_errors = <<>>
    /\ server = "None"

\* ------------------------------------------------- the LLM white agent

\* the requests one LLMWhiteAgentExecutor handles at the same time
WhiteRequests == {1, 2}

\* what follows "The container name is: " in a user input: "None" when the
\* sentence is absent, "" when only white space follows it
Containers == {"c1", "c2"}
Instructions == {"None", ""} \cup Containers

\* command texts, and command.split() of each
CommandTexts == {"ls", "rm x", "echo rm", ""}

Split ==
    [c \in CommandTexts |->
        CASE c = "ls" -> <<"ls">>
          [] c = "rm x" -> <<"rm", "x">>
          [] c = "echo rm" -> <<"echo", "rm">>
          [] c = "" -> <<>>]

\* settings.blocked_commands: not configured, empty, or rm
BlockedSettings == {"missing", "none", "rm"}

Blocked(setting) == IF setting = "rm" THEN {"rm"} ELSE {}

\* tool_call.function.arguments: text that is not JSON, an object without
\* "command", or an object whose "command" is one of the command texts
Arguments == {"invalid", "nokey"} \cup CommandTexts

FunctionNames == {"execute_bash_command", "other_function"}

ToolCall(name, arguments) == [name |-> name, arguments |-> arguments]

Response(content, calls) == [content |-> content, tool_calls |-> calls]

Bash(arguments) == ToolCall("execute_bash_command", arguments)

\* every response the LLM is studied with: final answers with and without
\* content, one tool call of every shape, and some pairs of tool calls
AllResponses ==
    {Response("", <<>>), Response("done", <<>>)}
    \cup {Response("", <<Bash(a)>>) : a \in Arguments}
    \cup {Response("", <<ToolCall("other_function", a)>>) : a \in {"ls", "invalid"}}
    \cup {Response("", <<Bash("ls"), ToolCall("other_function", "ls")>>),
          Response("", <<ToolCall("other_function", "ls"), Bash("ls")>>),
          Response("", <<Bash("rm x"), Bash("ls")>>),
          Response("", <<Bash("ls"), Bash("ls")>>)}

\* the responses of a well-behaved LLM
PlainResponses == {Response("done", <<>>), Response("", <<Bash("ls")>>)}

\* a message of the conversation
Message(role, content, ids, id, returncode) ==
    [role |-> role, content |-> content, tool_call_ids |-> ids, tool_call_id |-> id,
     returncode |-> returncode]

NoId == <<0, 0>>

\* the system prompt and the user input that open the conversation
InitialMessages ==
    << Message("system", "prompt", <<>>, NoId, 0), Message("user", "input", <<>>, NoId, 0) >>

NoProcess == [running |-> FALSE, container |-> "None", command |-> ""]

NoResult == [returned |-> FALSE, value |-> "None"]

\* the LLM white agent handles no request
LlmIdle ==
    /\ blocked_commands = "none"
    /\ agent_max_iterations = 1
    /\ llm_responses = {}
    /\ container_name = "None"
    /\ running = 0
    /\ l_pc = [w \in WhiteRequests |-> "idle"]
    /\ instruction = [w \in WhiteRequests |-> "None"]
    /\ iteration = [w \in WhiteRequests |-> 0]
    /\ llm_calls = [w \in WhiteRequests |-> 0]
    /\ messages = [w \in WhiteRequests |-> <<>>]
    /\ tool_calls = [w \in WhiteRequests |-> <<>>]
    /\ process = [w \in WhiteRequests |-> NoProcess]
    /\ loop_result = [w \in WhiteRequests |-> NoResult]
    /\ l_raised = [w \in WhiteRequests |-> "None"]
    /\ l_events = [w \in WhiteRequests |-> <<>>]
    /\ commands_run = <<>>

(***************************************************************************)
(* The simple white agent: data                                            *)
(***************************************************************************)

\* commands a plan can hold: normalised lines, never empty; the last one has
\* an unclosed quotation
PlanCommands == {"ls", "rm x", "echo 'x"}

\* shlex.split(command) raises ValueError: no closing quotation
ShlexRaises(command) == command = "echo 'x"

\* the command plans of at most MaxPlan commands
CommandPlans == UNION {[1..n -> PlanCommands] : n \in 0..MaxPlan}

\* the working directory: usable, missing, or not accessible
ExecutionRoots == {"ok", "missing", "denied"}

CommandResult(command, returncode) == [command |-> command, returncode |-> returncode]

\* _is_command_allowed, once settings.blocked_commands has been read
TokensAllowed(tokens, setting) ==
    IF tokens = <<>> THEN FALSE ELSE tokens[1] \notin Blocked(setting)

\* _is_command_allowed(command): "True", "False", or the exception it raises
IsCommandAllowed(command, setting) ==
    IF ShlexRaises(command) THEN "False"
    ELSE IF Split[command] = <<>> THEN "False"
    ELSE IF setting = "missing" THEN "ConfigurationError"
    ELSE IF TokensAllowed(Split[command], setting) THEN "True" ELSE "False"

\* _verify_execution(commands, results)
VerifyExecution(commands, res) ==
    IF commands = <<>> THEN TRUE
    ELSE IF res = <<>> THEN FALSE
    ELSE \A i \in 1..Len(res) : res[i].returncode = 0

SimpleIdle ==
    /\ simple_blocked = "none"
    /\ execution_root = "ok"
    /\ s_pc = "idle"
    /\ command_plan = <<>>
    /\ command_results = <<>>
    /\ shell_commands = <<>>
    /\ verification_passed = "None"
    /\ s_raised = "None"
    /\ s_events = <<>>

WhiteIdle == LlmIdle /\ SimpleIdle

\* run_terminal_bench_evaluation has not been called
NotStarted == [called |-> FALSE, returned |-> FALSE, results |-> <<>>]

\* parse_task_config is not under study
ParseIdle ==
    /\ parse_input = <<>>
    /\ parse_result = NotParsed

AuxIdle == ParseIdle /\ SettingsIdle /\ MainIdle /\ WhiteIdle

\* no request is being handled
ExecIdle ==
    /\ pc = [r \in Requests |-> "done"]
    /\ current_task = [r \in Requests |-> TRUE]
    /\ user_input = [r \in Requests |-> <<>>]
    /\ events = [r \in Requests |-> <<>>]
    /\ task_config = [r \in Requests |-> NoConfig]
    /\ raised = [r \in Requests |-> "None"]
    /\ terminal_reached = [r \in Requests |-> FALSE]
    /\ rejects_after_terminal = TRUE
    /\ harness_results = [r \in Requests |-> NotStarted]
    /\ evaluation_history = <<>>

InitScore ==
    /\ results \in {<<t>> : t \in RichTrials} \cup {<<t>> : t \in LineTrials}
                    \cup SeqsUpTo(ListTrials, MaxTrials)
    /\ config \in Configs
    /\ message = NoMessage
    /\ summary = NoSummary
    /\ format_calls = 0
    /\ ExecIdle
    /\ AuxIdle

\* mutant: the trials are consumed while the lines are written, and the call
\* is recorded in the history
FormatResultsMessage_Consuming ==
    /\ format_calls < MaxFormatCalls
    /\ message' = format_results_message(results, config)
    /\ format_calls' = format_calls + 1
    /\ results' = <<>>
    /\ evaluation_history' = Append(evaluation_history, [config |-> config, results |-> results])
    /\ UNCHANGED <<config, summary>>
    /\ UNCHANGED <<pc, current_task, user_input, events, task_config, raised,
                   terminal_reached, rejects_after_terminal, harness_results>>
    /\ UNCHANGED auxVars

FormatResultsMessage ==
    /\ format_calls < MaxFormatCalls
    /\ message' = format_results_message(results, config)
    /\ format_calls' = format_calls + 1
    /\ UNCHANGED <<results, config, summary>>
    /\ UNCHANGED <<execVars, auxVars>>

BuildReport ==
    /\ ~summary.called
    /\ summary' = buildReport(results)
    /\ UNCHANGED <<results, config, message, format_calls>>
    /\ UNCHANGED <<execVars, auxVars>>

NextScore == FormatResultsMessage \/ BuildReport

SpecScore == InitScore /\ [][NextScore]_vars

\* ------------------------------------------- execute, one step per await

\* the report logic is not under study while requests are handled
ScoreIdle ==
    /\ results = <<>>
    /\ config = NoConfig
    /\ message = NoMessage
    /\ summary = NoSummary
    /\ format_calls = 0

InitExec ==
    /\ ScoreIdle
    /\ pc = [r \in Requests |-> "start"]
    /\ current_task \in [Requests -> BOOLEAN]
    /\ user_input \in [Requests -> ExecInputs]
    /\ events = [r \in Requests |-> <<>>]
    /\ task_config = [r \in Requests |-> NoConfig]
    /\ raised = [r \in Requests |-> "None"]
    /\ terminal_reached = [r \in Requests |-> FALSE]
    /\ rejects_after_terminal \in BOOLEAN
    /\ harness_results = [r \in Requests |-> NotStarted]
    /\ evaluation_history = <<>>
    /\ AuxIdle

\* TaskUpdater.update_status(state, message): a TaskUpdater that tracks the
\* terminal state marks a terminal status final and remembers it
UpdateStatus(r, state, final, body) ==
    LET terminal == rejects_after_terminal /\ state \in TerminalStates
    IN  /\ events' = [events EXCEPT
                         ![r] = Append(@, Event("status", state, final \/ terminal, "", body))]
        /\ terminal_reached' = [terminal_reached EXCEPT ![r] = @ \/ terminal]

\* TaskUpdater.add_artifact(parts, name=name)
AddArtifact(r, name, body) ==
    /\ events' = [events EXCEPT ![r] = Append(@, Event("artifact", "", FALSE, name, body))]
    /\ UNCHANGED terminal_reached

\* the update is refused: the TaskUpdater raises RuntimeError
Refused(r) == rejects_after_terminal /\ terminal_reached[r]

\* task = new_task(context.message); await event_queue.enqueue_event(task)
EnqueueTask(r) ==
    /\ pc[r] = "start"
    /\ ~current_task[r]
    /\ events' = [events EXCEPT ![r] = Append(@, Event("task", "submitted", FALSE, "", <<>>))]
    /\ pc' = [pc EXCEPT ![r] = "status"]
    /\ UNCHANGED <<current_task, user_input, task_config, raised, terminal_reached,
                   rejects_after_terminal, evaluation_history>>
    /\ UNCHANGED <<harness_results, scoreVars, auxVars>>

\* await updater.update_status(TaskState.working, "Received evaluation request...")
SendInitialStatus(r) ==
    /\ pc[r] = "status" \/ (pc[r] = "start" /\ current_task[r])
    /\ UpdateStatus(r, "working", FALSE,
                    TextMessage("Received evaluation request. Parsing configuration...", ""))
    /\ pc' = [pc EXCEPT ![r] = "parse"]
    /\ UNCHANGED <<current_task, user_input, task_config, raised,
                   rejects_after_terminal, evaluation_history>>
    /\ UNCHANGED <<harness_results, scoreVars, auxVars>>

\* mutant: a failed parse is recorded and the handler goes on to evaluate
ParseConfig_GoesOn(r) ==
    /\ pc[r] = "parse"
    /\ LET parsed == parse_task_config(user_input[r])
       IN  /\ raised' = [raised EXCEPT ![r] = parsed.raised]
           /\ task_config' = [task_config EXCEPT ![r] = ConfigOf(parsed.value)]
           /\ UpdateStatus(r, "working", FALSE,
                           TextMessage("Configuration parsed. Starting evaluation of agent at",
                                       ConfigOf(parsed.value).white_agent_url))
           /\ pc' = [pc EXCEPT ![r] = "evaluate"]
    /\ UNCHANGED <<current_task, user_input, rejects_after_terminal, evaluation_history>>
    /\ UNCHANGED <<harness_results, scoreVars, auxVars>>

\* task_config = self.parse_task_config(user_input), then the second working
\* status, which reads task_config.get('white_agent_url'); an exception goes
\* to the except branch
ParseConfig(r) ==
    /\ pc[r] = "parse"
    /\ LET parsed == parse_task_config(user_input[r])
       IN  IF parsed.raised # "None"
           THEN /\ raised' = [raised EXCEPT ![r] = parsed.raised]
                /\ pc' = [pc EXCEPT ![r] = "error_artifact"]
                /\ UNCHANGED <<task_config, events, terminal_reached>>
           ELSE IF parsed.value \notin JsonObjects
           THEN /\ raised' = [raised EXCEPT ![r] = "AttributeError"]
                /\ pc' = [pc EXCEPT ![r] = "error_artifact"]
                /\ UNCHANGED <<task_config, events, terminal_reached>>
           ELSE /\ task_config' = [task_config EXCEPT ![r] = ConfigOf(parsed.value)]
                /\ UpdateStatus(r, "working", FALSE,
                                TextMessage("Configuration parsed. Starting evaluation of agent at",
                                            ConfigOf(parsed.value).white_agent_url))
                /\ pc' = [pc EXCEPT ![r] = "evaluate"]
                /\ UNCHANGED raised
    /\ UNCHANGED <<current_task, user_input, rejects_after_terminal, evaluation_history>>
    /\ UNCHANGED <<harness_results, scoreVars, auxVars>>

\* results = self.run_terminal_bench_evaluation(task_config) raises
RunEvaluationFails(r) ==
    /\ pc[r] = "evaluate"
    /\ raised' = [raised EXCEPT ![r] = "HarnessError"]
    /\ harness_results' = [harness_results EXCEPT
                               ![r] = [called |-> TRUE, returned |-> FALSE, results |-> <<>>]]
    /\ pc' = [pc EXCEPT ![r] = "error_artifact"]
    /\ UNCHANGED <<current_task, user_input, events, task_config, terminal_reached,
                   rejects_after_terminal, evaluation_history>>
    /\ UNCHANGED <<scoreVars, auxVars>>

\* the evaluation returns: the history entry, the formatted message and the
\* "evaluation_results" artifact
RunEvaluation(r) ==
    /\ pc[r] = "evaluate"
    /\ \E run_results \in HarnessResults :
           LET results_message == format_results_message(run_results, task_config[r])
           IN  /\ harness_results' = [harness_results EXCEPT
                                          ![r] = [called |-> TRUE, returned |-> TRUE,
                                                  results |-> run_results]]
               /\ evaluation_history' =
                      Append(evaluation_history,
                             [config |-> task_config[r], results |-> run_results])
               /\ IF results_message.raised
                  THEN /\ raised' = [raised EXCEPT ![r] = "ZeroDivisionError"]
                       /\ pc' = [pc EXCEPT ![r] = "error_artifact"]
                       /\ UNCHANGED <<events, terminal_reached>>
                  ELSE /\ AddArtifact(r, "evaluation_results", results_message.lines)
                       /\ pc' = [pc EXCEPT ![r] = "complete"]
                       /\ UNCHANGED raised
    /\ UNCHANGED <<current_task, user_input, task_config, rejects_after_terminal>>
    /\ UNCHANGED <<scoreVars, auxVars>>

\* await updater.complete() at the end of the try block
Complete(r) ==
    /\ pc[r] = "complete"
    /\ UpdateStatus(r, "completed", TRUE, <<>>)
    /\ pc' = [pc EXCEPT ![r] = "done"]
    /\ UNCHANGED <<current_task, user_input, task_config, raised,
                   rejects_after_terminal, evaluation_history>>
    /\ UNCHANGED <<harness_results, scoreVars, auxVars>>

\* except Exception: await updater.add_artifact(..., name="error")
ErrorArtifact(r) ==
    /\ pc[r] = "error_artifact"
    /\ AddArtifact(r, "error", TextMessage("Error during evaluation", raised[r]))
    /\ pc' = [pc EXCEPT ![r] = "error_status"]
    /\ UNCHANGED <<current_task, user_input, task_config, raised,
                   rejects_after_terminal, evaluation_history>>
    /\ UNCHANGED <<harness_results, scoreVars, auxVars>>

\* await updater.update_status(TaskState.failed, error_message)
ErrorStatus(r) ==
    /\ pc[r] = "error_status"
    /\ UpdateStatus(r, "failed", FALSE, TextMessage("Error during evaluation", raised[r]))
    /\ pc' = [pc EXCEPT ![r] = "error_complete"]
    /\ UNCHANGED <<current_task, user_input, task_config, raised,
                   rejects_after_terminal, evaluation_history>>
    /\ UNCHANGED <<harness_results, scoreVars, auxVars>>

\* await updater.complete() after the failed status; a TaskUpdater that
\* refuses it raises, and the inner except branch only logs
ErrorComplete(r) ==
    /\ pc[r] = "error_complete"
    /\ IF Refused(r)
       THEN UNCHANGED <<events, terminal_reached>>
       ELSE UpdateStatus(r, "completed", TRUE, <<>>)
    /\ pc' = [pc EXCEPT ![r] = "done"]
    /\ UNCHANGED <<current_task, user_input, task_config, raised,
                   rejects_after_terminal, evaluation_history>>
    /\ UNCHANGED <<harness_results, scoreVars, auxVars>>

NextExec ==
    \E r \in Requests :
        \/ EnqueueTask(r)
        \/ SendInitialStatus(r)
        \/ ParseConfig(r)
        \/ RunEvaluationFails(r)
        \/ RunEvaluation(r)
        \/ Complete(r)
        \/ ErrorArtifact(r)
        \/ ErrorStatus(r)
        \/ ErrorComplete(r)

SpecExec == InitExec /\ [][NextExec]_vars

\* ------------------------------------------------ Settings.get, one call

InitSettings ==
    /\ environ \in [EnvNames -> EnvValues]
    /\ toml_config \in TomlConfigs
    /\ get_call = NoGet
    /\ ScoreIdle
    /\ ExecIdle
    /\ ParseIdle
    /\ MainIdle
    /\ WhiteIdle

Get(key, default) ==
    /\ get_call' = [called |-> TRUE, key |-> key, default |-> default,
                    result |-> Settings_get(environ, toml_config, key, default)]
    /\ UNCHANGED <<environ, toml_config>>
    /\ UNCHANGED <<scoreVars, execVars, parseVars, mainVars, whiteVars>>

NextSettings == \E key \in SettingsKeys, default \in Defaults : Get(key, default)

SpecSettings == InitSettings /\ [][NextSettings]_vars

\* ------------------------------------------- parse_task_config, one call

InitParse ==
    /\ parse_input \in ParseInputs
    /\ parse_result = NotParsed
    /\ ScoreIdle
    /\ ExecIdle
    /\ SettingsIdle
    /\ MainIdle
    /\ WhiteIdle

Parse ==
    /\ ~parse_result.called
    /\ parse_result' = [called |-> TRUE,
                        raised |-> parse_task_config(parse_input).raised,
                        value |-> parse_task_config(parse_input).value]
    /\ UNCHANGED parse_input
    /\ UNCHANGED <<scoreVars, execVars, settingsVars, mainVars, whiteVars>>

NextParse == Parse

SpecParse == InitParse /\ [][NextParse]_vars

\* ------------------------------------------------ main(), step by step

InitMain ==
    /\ main_agent \in {"green", "llm_white"}
    /\ provided \in Provisions
    /\ main_pc = "logging"
    /\ main_exc = "None"
    /\ logged_errors = <<>>
    /\ server = "None"
    /\ ScoreIdle
    /\ ExecIdle
    /\ ParseIdle
    /\ SettingsIdle
    /\ WhiteIdle

\* logging.basicConfig(level=getattr(logging, settings.log_level),
\*                     format=settings.log_format)
SetupLogging ==
    /\ main_pc = "logging"
    /\ LET exc == ReadAll(provided, LoggingSettings)
       IN  IF exc # "None"
           THEN main_exc' = exc /\ main_pc' = "raised"
           ELSE main_exc' = main_exc /\ main_pc' = "validate"
    /\ UNCHANGED <<main_agent, provided, logged_errors, server>>
    /\ UNCHANGED <<scoreVars, execVars, parseVars, settingsVars, whiteVars>>

\* try: settings.validate_required_settings()
\* except ValueError as e: logger.error(...); logger.error(...); raise SystemExit(1)
ValidateConfiguration ==
    /\ main_pc = "validate"
    /\ LET exc == validate_required_settings(provided)
       IN  IF exc = "None"
           THEN /\ main_pc' = "create_app"
                /\ UNCHANGED <<main_exc, logged_errors>>
           ELSE IF IsValueError(exc)
           THEN /\ logged_errors' = logged_errors \o
                       << "Configuration error", "Please check your config.toml and .env files" >>
                /\ main_exc' = "SystemExit(1)"
                /\ main_pc' = "raised"
           ELSE /\ main_exc' = exc
                /\ main_pc' = "raised"
                /\ UNCHANGED logged_errors
    /\ UNCHANGED <<main_agent, provided, server>>
    /\ UNCHANGED <<scoreVars, execVars, parseVars, settingsVars, whiteVars>>

\* app = create_green_agent_app(...) / create_llm_white_agent_app(...)
CreateApp ==
    /\ main_pc = "create_app"
    /\ server' = "created"
    /\ main_pc' = "run"
    /\ UNCHANGED <<main_agent, provided, main_exc, logged_errors>>
    /\ UNCHANGED <<scoreVars, execVars, parseVars, settingsVars, whiteVars>>

\* uvicorn.run(app, host=..., port=...)
RunServer ==
    /\ main_pc = "run"
    /\ server' = "running"
    /\ main_pc' = "serving"
    /\ UNCHANGED <<main_agent, provided, main_exc, logged_errors>>
    /\ UNCHANGED <<scoreVars, execVars, parseVars, settingsVars, whiteVars>>

NextMain == SetupLogging \/ ValidateConfiguration \/ CreateApp \/ RunServer

SpecMain == InitMain /\ [][NextMain]_vars

\* ------------------------- the LLM white agent's execute, step by step
\* A request runs without interruption from one await to the next: it holds
\* the event loop (running) through its synchronous steps and frees it at
\* an await.

Runnable(w) == running \in {0, w}

LlmSettings == <<blocked_commands, agent_max_iterations, llm_responses, instruction>>

FirstToken(command) == IF Split[command] = <<>> THEN "" ELSE Split[command][1]

\* first_token in blocked
FirstTokenBlocked(command, setting) == FirstToken(command) \in Blocked(setting)

\* the way _execute_bash_command takes before it starts a subprocess
ExecOutcome(command, setting, container) ==
    IF setting = "missing" THEN "ConfigurationError"
    ELSE IF FirstTokenBlocked(command, setting) THEN "blocked"
    ELSE IF container \in {"None", ""} THEN "no_container"
    ELSE "subprocess"

\* the tool message: "Command: ...", "Exit code: ..." and the id it answers
ToolMessage(id, command, returncode) == Message("tool", command, <<>>, id, returncode)

\* task = new_task(context.message); await event_queue.enqueue_event(task),
\* when the request has no current task
LStart(w) ==
    /\ Runnable(w)
    /\ l_pc[w] = "start"
    /\ \E has_task \in BOOLEAN :
          IF has_task
          THEN running' = w /\ UNCHANGED l_events
          ELSE /\ running' = 0
               /\ l_events' = [l_events EXCEPT
                                  ![w] = Append(@, Event("task", "submitted", FALSE, "", <<>>))]
    /\ l_pc' = [l_pc EXCEPT ![w] = "status"]
    /\ UNCHANGED <<LlmSettings, container_name, iteration, llm_calls, messages, tool_calls,
                   process, loop_result, l_raised, commands_run>>
    /\ UNCHANGED <<scoreVars, execVars, parseVars, settingsVars, mainVars, simpleVars>>

\* await updater.update_status(TaskState.working, "Processing task with LLM agent...")
LUpdateStatus(w) ==
    /\ Runnable(w)
    /\ l_pc[w] = "status"
    /\ l_events' = [l_events EXCEPT
                       ![w] = Append(@, Event("status", "working", FALSE, "",
                                            TextMessage("Processing task with LLM agent...", "")))]
    /\ l_pc' = [l_pc EXCEPT ![w] = "loop"]
    /\ running' = 0
    /\ UNCHANGED <<LlmSettings, container_name, iteration, llm_calls, messages, tool_calls,
                   process, loop_result, l_raised, commands_run>>
    /\ UNCHANGED <<scoreVars, execVars, parseVars, settingsVars, mainVars, simpleVars>>

\* mutant: without a container name the loop goes on
LExtractContainer_NoCheck(w) ==
    /\ Runnable(w)
    /\ l_pc[w] = "loop"
    /\ container_name' = instruction[w]
    /\ messages' = [messages EXCEPT ![w] = InitialMessages]
    /\ l_pc' = [l_pc EXCEPT ![w] = "llm"]
    /\ UNCHANGED l_raised
    /\ running' = w
    /\ UNCHANGED <<LlmSettings, iteration, llm_calls, tool_calls, process, loop_result,
                   l_events, commands_run>>
    /\ UNCHANGED <<scoreVars, execVars, parseVars, settingsVars, mainVars, simpleVars>>

\* the head of _run_agent_loop: re.search(r"The container name is: (.+)"),
\* ValueError without a match, else self.container_name and the first messages
LExtractContainer(w) ==
    /\ Runnable(w)
    /\ l_pc[w] = "loop"
    /\ IF instruction[w] = "None"
       THEN /\ l_raised' = [l_raised EXCEPT ![w] = "ValueError"]
            /\ l_pc' = [l_pc EXCEPT ![w] = "error_artifact"]
            /\ UNCHANGED <<container_name, messages>>
       ELSE /\ container_name' = instruction[w]
            /\ messages' = [messages EXCEPT ![w] = InitialMessages]
            /\ l_pc' = [l_pc EXCEPT ![w] = "llm"]
            /\ UNCHANGED l_raised
    /\ running' = w
    /\ UNCHANGED <<LlmSettings, iteration, llm_calls, tool_calls, process, loop_result,
                   l_events, commands_run>>
    /\ UNCHANGED <<scoreVars, execVars, parseVars, settingsVars, mainVars, simpleVars>>

\* the tool calls of a response, each with its id
WithIds(calls, n) ==
    [i \in 1..Len(calls) |->
        [id |-> <<n, i>>, name |-> calls[i].name, arguments |-> calls[i].arguments]]

\* while iteration < settings.agent_max_iterations: one call of
\* chat.completions.create, the assistant message, and the return when the
\* response has no tool calls; after the loop the iteration-limit text
LCallLLM(w) ==
    /\ Runnable(w)
    /\ l_pc[w] = "llm"
    /\ IF iteration[w] < agent_max_iterations
       THEN \E response \in llm_responses :
               LET calls == WithIds(response.tool_calls, iteration[w] + 1)
               IN  /\ iteration' = [iteration EXCEPT ![w] = @ + 1]
                   /\ llm_calls' = [llm_calls EXCEPT ![w] = @ + 1]
                   /\ messages' = [messages EXCEPT
                          ![w] = Append(@, Message("assistant", response.content,
                                                   [i \in 1..Len(calls) |-> calls[i].id],
                                                   NoId, 0))]
                   /\ IF calls = <<>>
                      THEN /\ loop_result' = [loop_result EXCEPT
                                  ![w] = [returned |-> TRUE,
                                          value |-> IF response.content = ""
                                                    THEN "Task completed."
                                                    ELSE response.content]]
                           /\ l_pc' = [l_pc EXCEPT ![w] = "respond"]
                           /\ UNCHANGED tool_calls
                      ELSE /\ tool_calls' = [tool_calls EXCEPT ![w] = calls]
                           /\ l_pc' = [l_pc EXCEPT ![w] = "tool"]
                           /\ UNCHANGED loop_result
       ELSE /\ loop_result' = [loop_result EXCEPT
                   ![w] = [returned |-> TRUE,
                           value |-> "Task execution completed (reached iteration limit)."]]
            /\ l_pc' = [l_pc EXCEPT ![w] = "respond"]
            /\ UNCHANGED <<iteration, llm_calls, messages, tool_calls>>
    /\ running' = w
    /\ UNCHANGED <<LlmSettings, container_name, process, l_raised, l_events, commands_run>>
    /\ UNCHANGED <<scoreVars, execVars, parseVars, settingsVars, mainVars, simpleVars>>

\* the exception handling one tool call raises before any await, "None" if none
ToolCallRaises(tc) ==
    IF tc.arguments = "invalid" THEN "JSONDecodeError"
    ELSE IF tc.name # "execute_bash_command" THEN "None"
    ELSE IF tc.arguments = "nokey" THEN "KeyError"
    ELSE IF ExecOutcome(tc.arguments, blocked_commands, container_name) = "ConfigurationError"
    THEN "ConfigurationError"
    ELSE "None"

\* for tool_call in assistant_message.tool_calls: json.loads of the arguments,
\* then, for execute_bash_command, _execute_bash_command up to the start of
\* the subprocess and the tool message of a command that was not started
LHandleToolCall(w) ==
    /\ Runnable(w)
    /\ l_pc[w] = "tool"
    /\ IF tool_calls[w] = <<>>
       THEN /\ l_pc' = [l_pc EXCEPT ![w] = "llm"]
            /\ running' = w
            /\ UNCHANGED <<l_raised, tool_calls, messages, process, commands_run>>
       ELSE LET tc == Head(tool_calls[w])
                outcome == ExecOutcome(tc.arguments, blocked_commands, container_name)
            IN  IF ToolCallRaises(tc) # "None"
                THEN /\ l_raised' = [l_raised EXCEPT ![w] = ToolCallRaises(tc)]
                     /\ l_pc' = [l_pc EXCEPT ![w] = "error_artifact"]
                     /\ running' = w
                     /\ UNCHANGED <<tool_calls, messages, process, commands_run>>
                ELSE IF tc.name # "execute_bash_command"
                THEN /\ tool_calls' = [tool_calls EXCEPT ![w] = Tail(@)]
                     /\ running' = w
                     /\ UNCHANGED <<l_pc, l_raised, messages, process, commands_run>>
                ELSE IF outcome \in {"blocked", "no_container"}
                THEN /\ messages' = [messages EXCEPT
                            ![w] = Append(@, ToolMessage(tc.id, tc.arguments,
                                                  IF outcome = "blocked" THEN 126 ELSE 1))]
                     /\ tool_calls' = [tool_calls EXCEPT ![w] = Tail(@)]
                     /\ running' = w
                     /\ UNCHANGED <<l_pc, l_raised, process, commands_run>>
                ELSE \E started \in BOOLEAN :
                        IF started
                        THEN /\ process' = [process EXCEPT
                                    ![w] = [running |-> TRUE, container |-> container_name,
                                            command |-> tc.arguments]]
                             /\ commands_run' =
                                    Append(commands_run,
                                           [request |-> w, container |-> container_name,
                                            command |-> tc.arguments])
                             /\ l_pc' = [l_pc EXCEPT ![w] = "subprocess"]
                             /\ running' = 0
                             /\ UNCHANGED <<l_raised, tool_calls, messages>>
                        ELSE /\ messages' = [messages EXCEPT
                                    ![w] = Append(@, ToolMessage(tc.id, tc.arguments, 1))]
                             /\ tool_calls' = [tool_calls EXCEPT ![w] = Tail(@)]
                             /\ running' = 0
                             /\ UNCHANGED <<l_pc, l_raised, process, commands_run>>
    /\ UNCHANGED <<LlmSettings, container_name, iteration, llm_calls, loop_result, l_events>>
    /\ UNCHANGED <<scoreVars, execVars, parseVars, settingsVars, mainVars, simpleVars>>

\* the exit codes a command is studied with
ReturnCodes == {0, 2}

\* await process.communicate() returns: the tool message with the exit code
LSubprocessExits(w) ==
    /\ Runnable(w)
    /\ l_pc[w] = "subprocess"
    /\ \E returncode \in ReturnCodes :
          messages' = [messages EXCEPT
                          ![w] = Append(@, ToolMessage(Head(tool_calls[w]).id,
                                                Head(tool_calls[w]).arguments, returncode))]
    /\ tool_calls' = [tool_calls EXCEPT ![w] = Tail(@)]
    /\ process' = [process EXCEPT ![w] = NoProcess]
    /\ l_pc' = [l_pc EXCEPT ![w] = "tool"]
    /\ running' = w
    /\ UNCHANGED <<LlmSettings, container_name, iteration, llm_calls, loop_result,
                   l_raised, l_events, commands_run>>
    /\ UNCHANGED <<scoreVars, execVars, parseVars, settingsVars, mainVars, simpleVars>>

\* one await of the updater: the event is enqueued and the event loop freed
LEmit(w, event, next) ==
    /\ l_events' = [l_events EXCEPT ![w] = Append(@, event)]
    /\ l_pc' = [l_pc EXCEPT ![w] = next]
    /\ running' = 0
    /\ UNCHANGED <<LlmSettings, container_name, iteration, llm_calls, messages, tool_calls,
                   process, loop_result, l_raised, commands_run>>
    /\ UNCHANGED <<scoreVars, execVars, parseVars, settingsVars, mainVars, simpleVars>>

\* await updater.add_artifact([response], name="response")
LRespond(w) ==
    /\ Runnable(w)
    /\ l_pc[w] = "respond"
    /\ LEmit(w, Event("artifact", "", FALSE, "response",
                      TextMessage(loop_result[w].value, "")), "complete")

\* await updater.complete()
LComplete(w) ==
    /\ Runnable(w)
    /\ l_pc[w] = "complete"
    /\ LEmit(w, Event("status", "completed", TRUE, "", <<>>), "done")

\* except Exception: await updater.add_artifact([error_message], name="error")
LErrorArtifact(w) ==
    /\ Runnable(w)
    /\ l_pc[w] = "error_artifact"
    /\ LEmit(w, Event("artifact", "", FALSE, "error", TextMessage("Error", l_raised[w])),
             "failed")

\* await updater.failed(error_message)
LFailed(w) ==
    /\ Runnable(w)
    /\ l_pc[w] = "failed"
    /\ LEmit(w, Event("status", "failed", TRUE, "", TextMessage("Error", l_raised[w])),
             "done")

NextLlm ==
    \E w \in WhiteRequests :
        \/ LStart(w)
        \/ LUpdateStatus(w)
        \/ LExtractContainer(w)
        \/ LCallLLM(w)
        \/ LHandleToolCall(w)
        \/ LSubprocessExits(w)
        \/ LRespond(w)
        \/ LComplete(w)
        \/ LErrorArtifact(w)
        \/ LFailed(w)

LlmFresh ==
    /\ container_name = "None"
    /\ running = 0
    /\ iteration = [w \in WhiteRequests |-> 0]
    /\ llm_calls = [w \in WhiteRequests |-> 0]
    /\ messages = [w \in WhiteRequests |-> <<>>]
    /\ tool_calls = [w \in WhiteRequests |-> <<>>]
    /\ process = [w \in WhiteRequests |-> NoProcess]
    /\ loop_result = [w \in WhiteRequests |-> NoResult]
    /\ l_raised = [w \in WhiteRequests |-> "None"]
    /\ l_events = [w \in WhiteRequests |-> <<>>]
    /\ commands_run = <<>>
    /\ ScoreIdle
    /\ ExecIdle
    /\ ParseIdle
    /\ SettingsIdle
    /\ MainIdle
    /\ SimpleIdle

\* one request, an LLM that may answer anything
InitLoop ==
    /\ blocked_commands \in BlockedSettings
    /\ agent_max_iterations \in 1..MaxIterations
    /\ llm_responses = AllResponses
    /\ instruction \in {f \in [WhiteRequests -> Instructions] : f[2] = "None"}
    /\ l_pc = [w \in WhiteRequests |-> IF w = 1 THEN "start" ELSE "idle"]
    /\ LlmFresh

SpecLoop == InitLoop /\ [][NextLlm]_vars

\* two requests at the same time, an LLM that runs ls or answers
InitLlm ==
    /\ blocked_commands = "rm"
    /\ agent_max_iterations \in 1..MaxIterations
    /\ llm_responses = PlainResponses
    /\ instruction \in {f \in [WhiteRequests -> Instructions] :
                            f[1] \in {"None", "c1"} /\ f[2] = "c2"}
    /\ l_pc = [w \in WhiteRequests |-> "start"]
    /\ LlmFresh

SpecLlm == InitLlm /\ [][NextLlm]_vars

(***************************************************************************)
(* The simple white agent: SimpleWhiteAgentExecutor.execute                *)
(***************************************************************************)

SimpleSettings == <<simple_blocked, execution_root>>

NotSimple == <<scoreVars, execVars, parseVars, settingsVars, mainVars, llmVars>>

\* the command the for loop of _execute_command_plan stands at
NextCommand == command_plan[Len(command_results) + 1]

\* task = context.current_task; a new task is enqueued when there is none
SStart ==
    /\ s_pc = "start"
    /\ \E has_task \in BOOLEAN :
          s_events' = IF has_task THEN s_events
                      ELSE Append(s_events, Event("task", "submitted", FALSE, "", <<>>))
    /\ s_pc' = "status"
    /\ UNCHANGED <<SimpleSettings, command_plan, command_results, shell_commands,
                   verification_passed, s_raised>>
    /\ UNCHANGED NotSimple

\* update_status(working, "Processing task..."), then the plan is made from
\* the user input; _execute_command_plan is called for a plan that is not empty
SPlan ==
    /\ s_pc = "status"
    /\ s_events' = Append(s_events, Event("status", "working", FALSE, "",
                                          TextMessage("Processing task...", "")))
    /\ \E plan \in CommandPlans :
          /\ command_plan' = plan
          /\ s_pc' = IF plan = <<>> THEN "verify" ELSE "loop"
    /\ UNCHANGED <<SimpleSettings, command_results, shell_commands,
                   verification_passed, s_raised>>
    /\ UNCHANGED NotSimple

\* one pass of the for loop up to the subprocess: the command is refused with
\* 126, or create_subprocess_shell starts it or raises
SCheckCommand ==
    /\ s_pc = "loop"
    /\ LET allowed == IsCommandAllowed(NextCommand, simple_blocked)
       IN  CASE allowed = "ConfigurationError" ->
                  /\ s_raised' = "ConfigurationError"
                  /\ s_pc' = "raised"
                  /\ UNCHANGED <<command_results, shell_commands>>
             [] allowed = "False" ->
                  /\ command_results' = Append(command_results,
                                               CommandResult(NextCommand, 126))
                  /\ s_pc' = "verify"
                  /\ UNCHANGED <<shell_commands, s_raised>>
             [] allowed = "True" /\ execution_root = "missing" ->
                  /\ command_results' = Append(command_results,
                                               CommandResult(NextCommand, 127))
                  /\ s_pc' = "verify"
                  /\ UNCHANGED <<shell_commands, s_raised>>
             [] allowed = "True" /\ execution_root = "denied" ->
                  /\ s_raised' = "PermissionError"
                  /\ s_pc' = "raised"
                  /\ UNCHANGED <<command_results, shell_commands>>
             [] allowed = "True" /\ execution_root = "ok" ->
                  /\ shell_commands' = Append(shell_commands, NextCommand)
                  /\ s_pc' = "communicate"
                  /\ UNCHANGED <<command_results, s_raised>>
    /\ UNCHANGED <<SimpleSettings, command_plan, verification_passed, s_events>>
    /\ UNCHANGED NotSimple

\* mutant: the loop goes on after a command that exits non-zero
SCommandExits_NoBreak ==
    /\ s_pc = "communicate"
    /\ \E returncode \in ReturnCodes :
          /\ command_results' = Append(command_results,
                                       CommandResult(NextCommand, returncode))
          /\ s_pc' = IF Len(command_results) + 1 = Len(command_plan)
                     THEN "verify" ELSE "loop"
    /\ UNCHANGED <<SimpleSettings, command_plan, shell_commands, verification_passed,
                   s_raised, s_events>>
    /\ UNCHANGED NotSimple

\* await process.communicate(): the result is appended, and the loop ends
\* after the last command or a non-zero returncode
SCommandExits ==
    /\ s_pc = "communicate"
    /\ \E returncode \in ReturnCodes :
          /\ command_results' = Append(command_results,
                                       CommandResult(NextCommand, returncode))
          /\ s_pc' = IF returncode # 0 \/ Len(command_results) + 1 = Len(command_plan)
                     THEN "verify" ELSE "loop"
    /\ UNCHANGED <<SimpleSettings, command_plan, shell_commands, verification_passed,
                   s_raised, s_events>>
    /\ UNCHANGED NotSimple

\* _verify_execution, _build_response and add_artifact(name="response")
SRespond ==
    /\ s_pc = "verify"
    /\ verification_passed' = VerifyExecution(command_plan, command_results)
    /\ s_events' = Append(s_events, Event("artifact", "", FALSE, "response",
                                          TextMessage("Verification", "")))
    /\ s_pc' = "terminal"
    /\ UNCHANGED <<SimpleSettings, command_plan, command_results, shell_commands, s_raised>>
    /\ UNCHANGED NotSimple

\* if verification_passed: await updater.complete()
SComplete ==
    /\ s_pc = "terminal"
    /\ verification_passed = TRUE
    /\ s_events' = Append(s_events, Event("status", "completed", TRUE, "", <<>>))
    /\ s_pc' = "done"
    /\ UNCHANGED <<SimpleSettings, command_plan, command_results, shell_commands,
                   verification_passed, s_raised>>
    /\ UNCHANGED NotSimple

\* else: await updater.failed(verification_message)
SFailed ==
    /\ s_pc = "terminal"
    /\ verification_passed = FALSE
    /\ s_events' = Append(s_events, Event("status", "failed", TRUE, "",
                                          TextMessage("Verification", "")))
    /\ s_pc' = "done"
    /\ UNCHANGED <<SimpleSettings, command_plan, command_results, shell_commands,
                   verification_passed, s_raised>>
    /\ UNCHANGED NotSimple

NextSimple ==
    \/ SStart
    \/ SPlan
    \/ SCheckCommand
    \/ SCommandExits
    \/ SRespond
    \/ SComplete
    \/ SFailed

InitSimple ==
    /\ simple_blocked \in BlockedSettings
    /\ execution_root \in ExecutionRoots
    /\ s_pc = "start"
    /\ command_plan = <<>>
    /\ command_results = <<>>
    /\ shell_commands = <<>>
    /\ verification_passed = "None"
    /\ s_raised = "None"
    /\ s_events = <<>>
    /\ ScoreIdle
    /\ ExecIdle
    /\ ParseIdle
    /\ SettingsIdle
    /\ MainIdle
    /\ LlmIdle

SpecSimple == InitSimple /\ [][NextSimple]_vars

\* ------------------------------------------------ what the claims speak of

\* the entries of a trial's parser_results; none when it is absent
Entries(trial) ==
    IF trial.parser_results.present THEN trial.parser_results.entries ELSE <<>>

\* the positions of the entries whose status is exactly pass
PassingIdx(trial) == {j \in 1..Len(Entries(trial)) : Entries(trial)[j] = "pass"}

ResolvedBit(trial) == IF trial.is_resolved THEN 1 ELSE 0

\* the lines of the message with a given label
LinesOf(kind) == {i \in 1..Len(message.lines) : message.lines[i].kind = kind}

MarkerLines == LinesOf("PASS") \cup LinesOf("FAIL")

\* C1: the per-task score equals 0.5 * test_pass_rate + 0.5 * (1 if is_resolved
\* else 0), test_pass_rate being the fraction of entries whose status is pass:
\* pass rates 0, 1/2, 1 with is_resolved false/true give 0.0, 0.25, 0.5 and
\* 0.5, 0.75, 1.0, and {t1: pass, t2: fail} unresolved scores 0.25.
C1_ScoreFormula ==
    summary.called =>
        \A i \in 1..Len(results) :
            LET t == results[i]
                s == summary.task_scores[i].score
                n == Len(Entries(t))
                p == Cardinality(PassingIdx(t))
                r == ResolvedBit(t)
            IN  /\ ~IsError(s)
                /\ n > 0 => s.num * 2 * n = s.den * (p + r * n)
                /\ n = 0 => s.num * 2 = s.den * r
                /\ (n > 0 /\ p = 0 /\ r = 0) => s = [num |-> 0, den |-> 1]
                /\ (n > 0 /\ p = 0 /\ r = 1) => s = [num |-> 1, den |-> 2]
                /\ (2 * p = n /\ n > 0 /\ r = 0) => s = [num |-> 1, den |-> 4]
                /\ (2 * p = n /\ n > 0 /\ r = 1) => s = [num |-> 3, den |-> 4]
                /\ (p = n /\ n > 0 /\ r = 0) => s = [num |-> 1, den |-> 2]
                /\ (p = n /\ n > 0 /\ r = 1) => s = [num |-> 1, den |-> 1]

C1_Witness ==
    /\ summary.called
    /\ Len(results) = 1
    /\ Entries(results[1]) = <<"pass", "fail">>
    /\ ~results[1].is_resolved
    /\ summary.task_scores[1].score = [num |-> 1, den |-> 4]

\* C2: whatever the parser_results and the is_resolved flag of a trial, its
\* score lies in the closed interval [0.0, 1.0].
C2_ScoreInUnitInterval ==
    summary.called =>
        \A i \in 1..Len(results) :
            LET s == summary.task_scores[i].score
            IN  s.den > 0 /\ 0 <= s.num /\ s.num <= s.den

C2_Witness ==
    /\ summary.called
    /\ Len(results) = 1
    /\ Entries(results[1]) = <<"pass", "error", "pass">>
    /\ results[1].is_resolved
    /\ summary.task_scores[1].score = [num |-> 5, den |-> 6]

\* C3: a trial whose parser_results is None or empty has test pass rate 0.0
\* without any error; its score is 0.5 when it is resolved and 0.0 when not.
C3_NoParserResults ==
    summary.called =>
        \A i \in 1..Len(results) :
            Len(Entries(results[i])) = 0 =>
                /\ ~IsError(summary.task_scores[i].test_pass_rate)
                /\ summary.task_scores[i].test_pass_rate = [num |-> 0, den |-> 1]
                /\ summary.task_scores[i].score =
                       IF results[i].is_resolved THEN [num |-> 1, den |-> 2]
                       ELSE [num |-> 0, den |-> 1]

C3_Witness ==
    /\ summary.called
    /\ Len(results) = 1
    /\ results[1].parser_results.present
    /\ results[1].parser_results.entries = <<>>
    /\ results[1].is_resolved
    /\ summary.task_scores[1].score = [num |-> 1, den |-> 2]

\* C4: an entry counts toward the numerator of the test pass rate only if its
\* status is exactly pass; every other status (fail, unknown, malformed)
\* counts as failing, stays in the denominator, and raises no error.
C4_OnlyPassCounts ==
    summary.called =>
        \A i \in 1..Len(results) :
            LET t == results[i]
                rate == summary.task_scores[i].test_pass_rate
                n == Len(Entries(t))
            IN  /\ ~IsError(rate)
                /\ n > 0 => rate.num * n = rate.den * Cardinality(PassingIdx(t))
                /\ PassingIdx(t) = {} => rate.num = 0

C4_Witness ==
    /\ summary.called
    /\ Len(results) = 1
    /\ Entries(results[1]) = <<"pass", "error", "null">>
    /\ summary.task_scores[1].test_pass_rate = [num |-> 1, den |-> 3]

\* C5: the text returned by format_results_message contains, for every task
\* of the results, a line "Score: <score as a percentage with two decimals>".
C5_ScoreLinePerTask ==
    (message.called /\ ~message.raised) =>
        \A i \in 1..Len(results) :
            \E l \in LinesOf("Score") :
                message.lines[l].a = PercentFmt(computeTaskScore(results[i]))

RECURSIVE SetSum(_, _)
\* the sum of f over the index set S
SetSum(f, S) ==
    IF S = {} THEN 0
    ELSE LET x == CHOOSE y \in S : TRUE
         IN  f[x] + SetSum(f, S \ {x})

RECURSIVE SetProduct(_, _)
SetProduct(f, S) ==
    IF S = {} THEN 1
    ELSE LET x == CHOOSE y \in S : TRUE
         IN  f[x] * SetProduct(f, S \ {x})

\* the positions of the trials whose task has a weight in the table
WeightedIdx == {i \in 1..Len(results) : HasWeight(results[i].task_id)}

\* the weight table as the claims state it: easy 1, hard 3
TableWeight(id) == CASE id = "hello-world" -> 1 [] id = "hard-task" -> 3 [] OTHER -> 0

\* C6: the weighted overall score is sum(score_i * weight_i) / sum(weight_i)
\* over exactly the tasks that have a weight in the table; a task of score 1.0
\* and weight 1 with a task of score 0.5 and weight 3 gives 0.625.
C6_WeightedScore ==
    summary.called =>
        LET sc == [i \in 1..Len(results) |-> summary.task_scores[i].score]
            D == SetProduct([i \in 1..Len(results) |-> sc[i].den], WeightedIdx)
            sumW == SetSum([i \in 1..Len(results) |-> TableWeight(results[i].task_id)],
                           WeightedIdx)
            sumSW == SetSum([i \in 1..Len(results) |->
                                sc[i].num * (D \div sc[i].den)
                                * TableWeight(results[i].task_id)],
                            WeightedIdx)
            w == summary.weighted_overall_score
        IN  sumW > 0 => (~IsError(w) /\ w.num * sumW * D = w.den * sumSW)

C6_Witness ==
    /\ summary.called
    /\ Len(results) = 2
    /\ results[1].task_id = "hello-world"
    /\ summary.task_scores[1].score = [num |-> 1, den |-> 1]
    /\ results[2].task_id = "hard-task"
    /\ summary.task_scores[2].score = [num |-> 1, den |-> 2]
    /\ summary.weighted_overall_score = [num |-> 5, den |-> 8]

\* C7: when the denominator of the weighted score is zero (no task, or no
\* task with a recognized weight) the weighted overall score is 0.0 and no
\* division error is raised.
C7_ZeroDenominator ==
    (summary.called /\ WeightedIdx = {}) =>
        /\ ~IsError(summary.weighted_overall_score)
        /\ summary.weighted_overall_score = [num |-> 0, den |-> 1]

C7_Witness ==
    /\ summary.called
    /\ Len(results) = 2
    /\ WeightedIdx = {}
    /\ summary.task_scores[1].score = [num |-> 1, den |-> 1]
    /\ summary.weighted_overall_score = [num |-> 0, den |-> 1]

ResolvedIdx == {i \in 1..Len(results) : results[i].is_resolved}

\* the one line of the message with the given label has the numbers a and b
OneLine(kind, a, b) ==
    /\ Cardinality(LinesOf(kind)) = 1
    /\ \A l \in LinesOf(kind) : message.lines[l].a = a /\ message.lines[l].b = b

\* C8: n_resolved is the number of trials with is_resolved true, n_unresolved
\* the number with is_resolved false, their sum is the number shown as
\* "Tasks Evaluated", and accuracy is n_resolved / total when total > 0.
C8_ResolvedCounts ==
    LET total == Len(results)
        nres == Cardinality(ResolvedIdx)
    IN  /\ message.called =>
            /\ ~message.raised
            /\ OneLine("Tasks Evaluated", total, 0)
            /\ OneLine("Resolved", nres, total)
            /\ OneLine("Unresolved", total - nres, total)
            /\ \A r \in LinesOf("Resolved"), u \in LinesOf("Unresolved"),
                  t \in LinesOf("Tasks Evaluated") :
                   message.lines[r].a + message.lines[u].a = message.lines[t].a
            /\ total > 0 =>
                   OneLine("Accuracy", PercentFmt([num |-> nres, den |-> total]), 0)
        /\ summary.called =>
            /\ summary.n_resolved = nres
            /\ summary.n_unresolved = total - nres
            /\ total > 0 =>
                   /\ ~IsError(summary.accuracy)
                   /\ summary.accuracy.num * total = summary.accuracy.den * nres

C8_Witness ==
    /\ message.called
    /\ summary.called
    /\ Len(results) = 2
    /\ Cardinality(ResolvedIdx) = 1
    /\ OneLine("Resolved", 1, 2)
    /\ OneLine("Unresolved", 1, 2)
    /\ OneLine("Accuracy", 5000, 0)

\* C9: the report of an empty result list raises no error, has accuracy 0.0,
\* n_resolved 0, n_unresolved 0 and weighted overall score 0.0, and lists no
\* task lines.
C9_EmptyResults ==
    results = <<>> =>
        /\ message.called =>
            /\ ~message.raised
            /\ OneLine("Tasks Evaluated", 0, 0)
            /\ OneLine("Accuracy", 0, 0)
            /\ OneLine("Resolved", 0, 0)
            /\ OneLine("Unresolved", 0, 0)
            /\ MarkerLines = {}
            /\ LinesOf("Failure Mode") = {}
            /\ LinesOf("Tokens") = {}
        /\ summary.called =>
            /\ summary.accuracy = [num |-> 0, den |-> 1]
            /\ summary.n_resolved = 0
            /\ summary.n_unresolved = 0
            /\ summary.weighted_overall_score = [num |-> 0, den |-> 1]
            /\ summary.task_scores = <<>>

C9_Witness ==
    /\ results = <<>>
    /\ message.called
    /\ ~message.raised
    /\ summary.called

\* the positions of the terminal statuses among the events of a request
TerminalIdx(r) ==
    {i \in 1..Len(events[r]) :
        events[r][i].kind = "status" /\ events[r][i].state \in {"completed", "failed"}}

\* C10: every invocation of execute ends in exactly one terminal status,
\* completed or failed, which is its last event: failed, and never also
\* completed, when the evaluation raised an error, and completed when it
\* succeeded.
C10_ExactlyOneTerminalStatus ==
    \A r \in Requests :
        pc[r] = "done" =>
            /\ Cardinality(TerminalIdx(r)) = 1
            /\ TerminalIdx(r) = {Len(events[r])}
            /\ \A i \in TerminalIdx(r) :
                   events[r][i].state = IF raised[r] # "None" THEN "failed" ELSE "completed"

\* the positions of the artifacts of a given name among the events of a request
ArtifactIdx(r, name) ==
    {i \in 1..Len(events[r]) :
        events[r][i].kind = "artifact" /\ events[r][i].name = name}

\* the lines with a given label in a report text
BodyLines(body, kind) == {i \in 1..Len(body) : body[i].kind = kind}

\* C11: when the steps of several evaluation requests interleave on one
\* executor, the report built for a request depends only on that request's
\* own results and config: it is the report of its own arguments whatever the
\* other requests have done, so no state is shared between invocations.
C11_ReportOfOwnArguments ==
    \A r \in Requests :
        \A i \in ArtifactIdx(r, "evaluation_results") :
            LET body == events[r][i].body
                own == harness_results[r].results
            IN  /\ harness_results[r].returned
                /\ body = MessageLines(own, task_config[r])
                /\ \A l \in BodyLines(body, "Tasks Evaluated") : body[l].a = Len(own)
                /\ \A l \in BodyLines(body, "Agent Under Test") :
                       body[l].text = IF task_config[r].white_agent_url = "None"
                                      THEN "Unknown"
                                      ELSE task_config[r].white_agent_url
                /\ Cardinality(BodyLines(body, "PASS") \cup BodyLines(body, "FAIL"))
                       = Len(own)

\* two requests in flight at once, each with its report, built from different
\* results and different configs
C11_Witness ==
    /\ pc[1] = "complete"
    /\ pc[2] = "complete"
    /\ ArtifactIdx(1, "evaluation_results") # {}
    /\ ArtifactIdx(2, "evaluation_results") # {}
    /\ harness_results[1].results # harness_results[2].results
    /\ task_config[1] # task_config[2]
    /\ Len(evaluation_history) = 2

Markers == SelectSeq(message.lines, LAMBDA l : l.kind \in {"PASS", "FAIL"})

\* C13: the Task Results section has exactly one marker line per trial of the
\* result list, in the order of the list (not sorted, duplicates of a task_id
\* kept), and a line shows PASS iff that trial's is_resolved is true, FAIL
\* otherwise.
C13_MarkerPerTrialInOrder ==
    (message.called /\ ~message.raised) =>
        /\ Len(Markers) = Len(results)
        /\ \A i \in 1..Len(results) :
              /\ Markers[i].text = results[i].task_id
              /\ (Markers[i].kind = "PASS") <=> results[i].is_resolved
              /\ (Markers[i].kind = "FAIL") <=> ~results[i].is_resolved
        /\ \A m \in MarkerLines : \A h \in LinesOf("Task Results") : h < m

\* two attempts of one task, the first failed and the second resolved
C13_Witness ==
    /\ message.called /\ ~message.raised
    /\ Len(results) = 2
    /\ results[1].task_id = results[2].task_id
    /\ ~results[1].is_resolved /\ results[2].is_resolved
    /\ Markers[1].kind = "FAIL" /\ Markers[2].kind = "PASS"

\* the lines of a kind that follow the i-th marker and precede the next one
DetailLines(i, kind) ==
    {p \in LinesOf(kind) : Cardinality({m \in MarkerLines : m < p}) = i}

\* a token count that is present and not zero
NonZero(x) == x # None /\ x # 0

\* what the Tokens line shows for a count
Shown(x) == IF x = None THEN 0 ELSE x

FailureModeLineRule(i) ==
    LET shown == DetailLines(i, "Failure Mode")
    IN  /\ (shown # {}) <=> (~results[i].is_resolved /\ results[i].failure_mode # "None")
        /\ Cardinality(shown) <= 1
        /\ \A p \in shown : message.lines[p].text = results[i].failure_mode
        /\ results[i].is_resolved => shown = {}

TokensLineShape(i) ==
    LET shown == DetailLines(i, "Tokens")
    IN  /\ Cardinality(shown) <= 1
        /\ \A p \in shown :
              /\ message.lines[p].a = Shown(results[i].total_input_tokens)
              /\ message.lines[p].b = Shown(results[i].total_output_tokens)

\* C14 as stated: the Failure Mode line appears iff the trial is not resolved
\* and has a failure mode, and the Tokens line appears iff the trial has a
\* token count present (an absent count shown as 0); a resolved trial never
\* shows a failure mode.
C14_TokensIffPresent ==
    (message.called /\ ~message.raised) =>
        \A i \in 1..Len(results) :
            /\ FailureModeLineRule(i)
            /\ TokensLineShape(i)
            /\ (DetailLines(i, "Tokens") # {}) <=>
                   (results[i].total_input_tokens # None \/ results[i].total_output_tokens # None)

\* C14 amended: the Failure Mode line appears iff the trial is not resolved and
\* has a failure mode, and the Tokens line appears iff at least one of the two
\* token counts is present and not zero (an absent count shown as 0); a
\* resolved trial never shows a failure mode.
C14_TokensIffNonZero ==
    (message.called /\ ~message.raised) =>
        \A i \in 1..Len(results) :
            /\ FailureModeLineRule(i)
            /\ TokensLineShape(i)
            /\ (DetailLines(i, "Tokens") # {}) <=>
                   (NonZero(results[i].total_input_tokens) \/ NonZero(results[i].total_output_tokens))

\* an unresolved trial with a failure mode, no input count and 7 output tokens
C14_Witness ==
    /\ message.called /\ ~message.raised
    /\ Len(results) = 1
    /\ ~results[1].is_resolved /\ results[1].failure_mode = "agent_timeout"
    /\ results[1].total_input_tokens = None /\ results[1].total_output_tokens = 7
    /\ DetailLines(1, "Failure Mode") # {}
    /\ \E p \in DetailLines(1, "Tokens") : message.lines[p].a = 0 /\ message.lines[p].b = 7

\* the number of attempts of the task of trial i that come before trial i
EarlierAttempts(i) ==
    Cardinality({j \in 1..(i - 1) : results[j].task_id = results[i].task_id})

\* the task ids with a resolved attempt among their first k attempts
PassedWithin(k) ==
    {results[i].task_id : i \in {n \in 1..Len(results) :
                                    results[n].is_resolved /\ EarlierAttempts(n) < k}}

\* the Pass@ lines of the message for one k
PassAtLines(k) == {p \in LinesOf("Pass@") : message.lines[p].a = k}

\* C15: for each configured k, pass_at_k is the fraction of distinct task_ids
\* with at least one resolved attempt among their first k attempts, grouped by
\* task_id; the report prints a Pass@k line for every k whose value is defined
\* and none for a k whose value is undefined.
C15_PassAtK ==
    (message.called /\ ~message.raised) =>
        LET tasks == {results[i].task_id : i \in 1..Len(results)}
        IN  \A n \in 1..Len(PassAtKs) :
                LET k == PassAtKs[n]
                IN  IF tasks # {}
                    THEN /\ Cardinality(PassAtLines(k)) = 1
                         /\ \A p \in PassAtLines(k) :
                               message.lines[p].b =
                                   PercentFmt(Rat(Cardinality(PassedWithin(k)), Cardinality(tasks)))
                    ELSE PassAtLines(k) = {}

\* one task attempted twice, resolved only at the second attempt: pass@1 is
\* 0.00% and pass@2 is 100.00%
C15_Witness ==
    /\ message.called /\ ~message.raised
    /\ Len(results) = 2
    /\ results[1].task_id = results[2].task_id
    /\ ~results[1].is_resolved /\ results[2].is_resolved
    /\ \E p \in PassAtLines(1) : message.lines[p].b = 0
    /\ \E p \in PassAtLines(2) : message.lines[p].b = 10000

\* the name of the environment variable of a key, its segments upper-cased and
\* joined one by one
RECURSIVE JoinUpper(_)
JoinUpper(key) ==
    IF key = <<>> THEN <<>>
    ELSE [i \in 1..Len(Head(key)) |-> Upper[Head(key)[i]]] \o JoinUpper(Tail(key))

\* C16: Settings.get(key, default) resolves by precedence: the environment
\* variable named by the upper-cased key with dots replaced by underscores, when
\* set, gives the value; otherwise the dotted path's non-null value in
\* config.toml; otherwise default.
C16_GetPrecedence ==
    get_call.called =>
        LET name == JoinUpper(get_call.key)
        IN  /\ name \in DOMAIN environ
            /\ get_call.result =
                  IF environ[name] # "None" THEN environ[name]
                  ELSE IF toml_config[get_call.key] # "absent" THEN toml_config[get_call.key]
                  ELSE get_call.default

\* green_agent.port is resolved with GREEN_AGENT_PORT set to the empty string
\* and the file holding 8000: the environment value wins
C16_Witness ==
    /\ get_call.called
    /\ get_call.key = << <<"green", "agent">>, <<"port">> >>
    /\ environ[<<"GREEN", "AGENT", "PORT">>] = ""
    /\ toml_config[get_call.key] = "8000"
    /\ get_call.default = "default"
    /\ get_call.result = ""

\* a setting validate_required_settings reads is missing
RequiredMissing ==
    \E i \in 1..Len(RequiredSettings) : provided[RequiredSettings[i]] = "missing"

\* C17: at startup main() of the green agent and of the LLM white agent
\* validates the configuration before starting the server: if a required
\* setting is missing, the configuration error is logged and the process exits
\* with SystemExit(1) without creating or running the server. Stated for the
\* runs whose logging setup succeeded, so that validation is reached.
C17_MissingSettingExits ==
    /\ server # "None" => ~RequiredMissing
    /\ (RequiredMissing /\ main_pc \notin {"logging", "validate"}
           /\ ReadAll(provided, LoggingSettings) = "None") =>
          /\ main_pc = "raised"
          /\ main_exc = "SystemExit(1)"
          /\ logged_errors # <<>>
          /\ server = "None"

\* the text between positions i and j is one JSON text, white space aside
IsJson(input, i, j) ==
    \E n \in (i + 1)..(j - 1) :
        /\ input[n] \in JsonTexts
        /\ \A m \in ((i + 1)..(j - 1)) \ {n} : input[m] = " "

\* the JSON text between positions i and j
JsonBetween(input, i, j) ==
    input[CHOOSE n \in (i + 1)..(j - 1) : input[n] \in JsonTexts]

\* positions i < j hold the first opening tag and the first closing tag after it
FirstTags(input, i, j) ==
    /\ i \in 1..Len(input) /\ j \in 1..Len(input) /\ i < j
    /\ input[i] = OpenTag /\ input[j] = CloseTag
    /\ \A n \in 1..(i - 1) : input[n] # OpenTag
    /\ \A n \in (i + 1)..(j - 1) : input[n] # CloseTag

TagsPresent(input) == \E i, j \in 1..Len(input) : FirstTags(input, i, j)

\* C18: parse_task_config returns the JSON found between the first
\* <task_config> and </task_config> tags when such tags are present; without
\* tags it returns the whole input parsed as JSON; in every other case (no tags
\* and input not JSON, or tags enclosing invalid JSON) it raises ValueError and
\* returns nothing.
C18_ParseTaskConfig ==
    parse_result.called =>
        LET input == parse_input
            n == Len(input)
        IN  /\ \A i, j \in 1..n :
                  (FirstTags(input, i, j) /\ IsJson(input, i, j)) =>
                      /\ parse_result.raised = "None"
                      /\ parse_result.value = JsonBetween(input, i, j)
            /\ \A i, j \in 1..n :
                  (FirstTags(input, i, j) /\ ~IsJson(input, i, j)) =>
                      /\ IsValueError(parse_result.raised)
                      /\ parse_result.value = "None"
            /\ (~TagsPresent(input) /\ IsJson(input, 0, n + 1)) =>
                  /\ parse_result.raised = "None"
                  /\ parse_result.value = JsonBetween(input, 0, n + 1)
            /\ (~TagsPresent(input) /\ ~IsJson(input, 0, n + 1)) =>
                  /\ IsValueError(parse_result.raised)
                  /\ parse_result.value = "None"

\* tags around an object followed by a second closing tag:
\* the object between the first pair of tags is returned
C18_Witness ==
    /\ parse_result.called
    /\ parse_input = <<OpenTag, "{}", CloseTag, CloseTag>>
    /\ parse_result.raised = "None"
    /\ parse_result.value = "{}"

\* the positions of the statuses of a given state among the events of request r
StatusIdx(r, state) ==
    {i \in 1..Len(events[r]) : events[r][i].kind = "status" /\ events[r][i].state = state}

\* the exceptions parse_task_config raises
ParseErrors == {"ValueError", "JSONDecodeError"}

\* the except branch of request r has run to its end
HandlerDone(r) == raised[r] # "None" /\ pc[r] = "done"

\* C19: if parsing the task configuration or running the harness raises during
\* execute, the handler emits an artifact named 'error' carrying the error text
\* and a failed status, emits no 'evaluation_results' artifact, does not let
\* the exception escape execute, and (when parsing failed) never starts the
\* harness.
C19_ErrorPath ==
    \A r \in Requests :
        (raised[r] \in ParseErrors \cup {"HarnessError"}) =>
            /\ pc[r] \in {"error_artifact", "error_status", "error_complete", "done"}
            /\ ArtifactIdx(r, "evaluation_results") = {}
            /\ (pc[r] # "error_artifact") =>
                  /\ Cardinality(ArtifactIdx(r, "error")) = 1
                  /\ \A i \in ArtifactIdx(r, "error") :
                        events[r][i].body = TextMessage("Error during evaluation", raised[r])
            /\ (pc[r] \in {"error_complete", "done"}) =>
                  /\ Cardinality(StatusIdx(r, "failed")) = 1
                  /\ \A i \in ArtifactIdx(r, "error") : \A j \in StatusIdx(r, "failed") : i < j
            /\ (raised[r] \in ParseErrors) => ~harness_results[r].called
            /\ (raised[r] = "HarnessError") =>
                  harness_results[r].called /\ ~harness_results[r].returned

\* one request whose input could not be parsed and one whose harness raised,
\* both handled to the end
C19_Witness ==
    /\ HandlerDone(1) /\ raised[1] = "ValueError"
    /\ HandlerDone(2) /\ raised[2] = "HarnessError"
    /\ ArtifactIdx(1, "error") # {} /\ StatusIdx(1, "failed") # {}
    /\ ArtifactIdx(2, "error") # {} /\ StatusIdx(2, "failed") # {}

\* the order of the events of request r up to the terminal status
EventsOrdered(r) ==
    LET ev == events[r]
        tasks == {i \in 1..Len(ev) : ev[i].kind = "task"}
        working == StatusIdx(r, "working")
        parsed == {i \in working :
                      ev[i].body[1].kind = "Configuration parsed. Starting evaluation of agent at"}
    IN  /\ tasks \subseteq {1}
        /\ (ev # <<>>) => ((tasks # {}) <=> ~current_task[r])
        /\ (pc[r] \notin {"start", "status"}) =>
              (working # {} /\ \A i \in 1..Len(ev) : ev[i].kind # "task" => Min(working) <= i)
        /\ (pc[r] = "parse") => Cardinality(working) = 1
        /\ harness_results[r].called =>
              (Cardinality(working) = 2 /\ parsed = {Max(working)})
        /\ (ArtifactIdx(r, "evaluation_results") # {}) =>
              /\ harness_results[r].returned
              /\ \A i \in ArtifactIdx(r, "evaluation_results") : \A j \in working : j < i

\* the terminal status is the last event of request r
TerminalStatusLast(r) ==
    \A i \in 1..Len(events[r]) :
        (events[r][i].kind = "status" /\ events[r][i].state \in TerminalStates) =>
            i = Len(events[r])

\* C20: in every run of execute the task object is enqueued first when the
\* request has no current task, a working status is emitted before the user
\* input is parsed, the harness starts only after a second working status
\* announcing the parsed configuration, the 'evaluation_results' artifact is
\* emitted only after the harness has returned, and no event is emitted after
\* the terminal status.
C20_EventOrder ==
    \A r \in Requests : EventsOrdered(r) /\ TerminalStatusLast(r)

\* the last event of request r is a status of the given state
EndedWith(r, state) ==
    /\ pc[r] = "done"
    /\ events[r] # <<>>
    /\ events[r][Len(events[r])].kind = "status"
    /\ events[r][Len(events[r])].state = state

\* the history entry a request leaves
EntryOf(r) == [config |-> task_config[r], results |-> harness_results[r].results]

\* the history holds one entry per request that ended completed, none for the others
HistoryMatchesOutcomes ==
    /\ \A r \in Requests :
          EndedWith(r, "completed") => \E i \in 1..Len(evaluation_history) :
                                          evaluation_history[i] = EntryOf(r)
    /\ (\A r \in Requests : pc[r] = "done") =>
          Len(evaluation_history) = Cardinality({r \in Requests : EndedWith(r, "completed")})

\* a step only appends to the history
HistoryAppendOnly ==
    /\ Len(evaluation_history') >= Len(evaluation_history)
    /\ SubSeq(evaluation_history', 1, Len(evaluation_history)) = evaluation_history

\* C21: after any sequence of requests to one executor, evaluation_history is
\* append-only and holds exactly one entry (the request's config and results)
\* for each request whose task ended completed and none for a request whose
\* task ended failed; existing entries are never modified or removed.
C21_HistoryPerCompletedRequest ==
    [][HistoryAppendOnly]_vars /\ []HistoryMatchesOutcomes

\* the assistant messages of the conversation of request w, in order
Assistants(w) == SelectSeq(messages[w], LAMBDA m : m.role = "assistant")

\* _run_agent_loop of request w was entered and has ended
LoopEnded(w) ==
    messages[w] # <<>> /\ l_pc[w] \in {"respond", "complete", "error_artifact", "failed", "done"}

\* what the loop returns for the response that ended it
ReturnOf(w) ==
    LET a == Assistants(w)
        n == Len(a)
    IN  IF n > 0 /\ a[n].tool_call_ids = <<>>
        THEN (IF a[n].content = "" THEN "Task completed." ELSE a[n].content)
        ELSE "Task execution completed (reached iteration limit)."

LoopReturnsFor(w) ==
    LET a == Assistants(w)
        n == Len(a)
    IN  /\ llm_calls[w] <= agent_max_iterations
        /\ Len(a) = llm_calls[w]
        /\ \A i \in 1..(n - 1) : a[i].tool_call_ids # <<>>
        /\ (LoopEnded(w) /\ ((n > 0 /\ a[n].tool_call_ids = <<>>) \/ n = agent_max_iterations)) =>
              (loop_result[w].returned /\ loop_result[w].value = ReturnOf(w))

\* C22: _run_agent_loop ends after at most agent_max_iterations LLM calls: it
\* returns the model's content (or 'Task completed.' when the content is empty)
\* at the first response that has no tool calls, and returns 'Task execution
\* completed (reached iteration limit).' when every one of the
\* agent_max_iterations responses contained tool calls. Stated for the runs
\* in which blocked_commands is configured.
C22_LoopReturns ==
    blocked_commands # "missing" => \A w \in WhiteRequests : LoopReturnsFor(w)

\* the tool messages of request w
ToolMessages(w) == {i \in 1..Len(messages[w]) : messages[w][i].role = "tool"}

\* no subprocess was started for a blocked command or without a container name
NoForbiddenSubprocess ==
    \A i \in 1..Len(commands_run) :
        /\ FirstToken(commands_run[i].command) \notin Blocked(blocked_commands)
        /\ commands_run[i].container \notin {"None", ""}

\* a blocked command is answered with 126, a command without container with 1
RefusalCodes(w) ==
    \A i \in ToolMessages(w) :
        LET m == messages[w][i]
        IN  IF FirstToken(m.content) \in Blocked(blocked_commands) THEN m.returncode = 126
            ELSE instruction[w] = "" => m.returncode = 1

\* C23: _execute_bash_command never starts a subprocess for a command whose
\* first token is in blocked_commands (it returns returncode 126) nor when no
\* container name is set (it returns returncode 1), and it never raises: a
\* failure to run the command is returned as a result with returncode 1.
C23_NoBlockedCommandNoRaise ==
    /\ NoForbiddenSubprocess
    /\ \A w \in WhiteRequests :
          /\ RefusalCodes(w)
          /\ l_raised[w] # "ConfigurationError"

\* the positions of the terminal statuses among the events of request w
LTerminalIdx(w) ==
    {i \in 1..Len(l_events[w]) :
        l_events[w][i].kind = "status" /\ l_events[w][i].state \in TerminalStates}

LArtifactIdx(w, name) ==
    {i \in 1..Len(l_events[w]) :
        l_events[w][i].kind = "artifact" /\ l_events[w][i].name = name}

C25_OwnContainer ==
    \A i \in 1..Len(commands_run) :
        commands_run[i].container = instruction[commands_run[i].request]

\* the tool messages of request w that answer the tool call id
AnswersTo(w, id) == {i \in ToolMessages(w) : messages[w][i].tool_call_id = id}

\* request w is about to call the LLM again
BeforeLaterCall(w) ==
    l_pc[w] = "llm" /\ iteration[w] >= 1 /\ iteration[w] < agent_max_iterations

\* C26: before each LLM call after the first, every tool call id of the
\* preceding assistant message has exactly one tool message answering it in
\* the message list, whatever function name and arguments the tool call carries.
C26_ToolCallsAnswered ==
    \A w \in WhiteRequests :
        BeforeLaterCall(w) =>
            LET last == Assistants(w)[Len(Assistants(w))]
            IN  \A n \in 1..Len(last.tool_call_ids) :
                    Cardinality(AnswersTo(w, last.tool_call_ids[n])) = 1

\* a command the safety rules refuse: unparsable, empty, or first token blocked
RefusedCommand(command) ==
    IF ShlexRaises(command) THEN TRUE
    ELSE IF Split[command] = <<>> THEN TRUE
    ELSE Split[command][1] \in Blocked(simple_blocked)

\* _execute_command_plan has returned its result list
PlanReturned == command_plan # <<>> /\ s_pc \in {"verify", "terminal", "done"}

\* C27: _execute_command_plan runs the commands one at a time in plan order
\* and stops at the first command that is blocked, cannot be started, or exits
\* non-zero: the result list is a prefix of the plan, only its last result can be
\* non-zero, no command after that one is run, and a blocked command is never
\* run and is recorded with returncode 126.
C27_StopsAtFirstFailure ==
    /\ Len(command_results) <= Len(command_plan)
    /\ \A i \in 1..Len(command_results) :
          /\ command_results[i].command = command_plan[i]
          /\ i < Len(command_results) => command_results[i].returncode = 0
          /\ command_results[i].returncode # 0 => Len(shell_commands) <= i
          /\ RefusedCommand(command_plan[i]) =>
                command_results[i].returncode = 126 /\ Len(shell_commands) < i
    /\ Len(shell_commands) <= Len(command_results) + 1
    /\ \A i \in 1..Len(shell_commands) :
          shell_commands[i] = command_plan[i] /\ ~RefusedCommand(shell_commands[i])
    /\ PlanReturned =>
          \/ Len(command_results) = Len(command_plan)
          \/ command_results[Len(command_results)].returncode # 0

\* a plan of two commands: the first ran and exited 0, the second was refused
C27_Witness ==
    /\ s_pc = "done"
    /\ Len(command_plan) = 2
    /\ Len(command_results) = 2
    /\ command_results[2].returncode = 126
    /\ shell_commands = <<command_plan[1]>>

\* execute of the simple white agent has ended, by returning or by raising
SimpleEnded == s_pc \in {"done", "raised"}

STerminalIdx ==
    {i \in 1..Len(s_events) :
        s_events[i].kind = "status" /\ s_events[i].state \in TerminalStates}

SResponseIdx ==
    {i \in 1..Len(s_events) :
        s_events[i].kind = "artifact" /\ s_events[i].name = "response"}

\* the plan is empty, or every planned command was executed and exited 0
PlanSucceeded ==
    \/ command_plan = <<>>
    \/ /\ shell_commands = command_plan
       /\ Len(command_results) = Len(command_plan)
       /\ \A i \in 1..Len(command_results) : command_results[i].returncode = 0

\* the run emitted 'response' and then its one terminal status, the right one
ResponseThenTerminal ==
    /\ Cardinality(SResponseIdx) = 1
    /\ Cardinality(STerminalIdx) = 1
    /\ STerminalIdx = {Len(s_events)}
    /\ SResponseIdx = {Len(s_events) - 1}
    /\ s_events[Len(s_events)].state = (IF PlanSucceeded THEN "completed" ELSE "failed")

====
